---------------------------- MODULE Spec2Model ----------------------------
(*
  A model of the concurrency core of sharp-frame-extractor:

    StoreSpec      PooledSharedNDArrayStore (memory/shared_ndarray_pool.py)
    FutureSpec     Future (worker/Future.py)
    PoolSpec       BaseWorker, BaseWorkerPool, FrameAnalyzerWorkerPool
    ReduceSpec     SharpFrameExtractor._select_best_frames_per_interval
    RingSpec       RollingBuffer (memory/rolling_buffer.py)
    AnalysisSpec   one task's events, analysis pass and store
    CrashSpec      the same pass with worker processes that can die
    ProcessSpec    SharpFrameExtractor.process
    ConfigSpec     the options of a task and its frame_interval
    IntervalSpec   frame_interval and the reduction that uses it
    CountSpec      one task in count mode
    ExtractSpec    SharpFrameExtractor._extract_frames
    TaskIdSpec     AutoTaskIdMixin (models.py)
    BlockSizeSpec  the stream block size of a task
    BatchSpec      BatchedVideoReader.read_frames
    ReaderSpec     FfmpegIoVideoReader.read_frames

  Every specification fixes the variables of the other components at their
  initial value.
*)
EXTENDS Integers, Sequences, FiniteSets, TLC

VARIABLES
    \* ---- PooledSharedNDArrayStore
    semaphore,      \* value of self._semaphore
    pool,           \* self._pool: list of free segments (names)
    active,         \* self._active: names of the segments handed out
    created,        \* number of SharedMemory segments created so far
    tpc,            \* position of every client thread of the store
    tshm,           \* the segment a thread holds inside put
    tlast,          \* outcome of the thread's last put
    nputs,          \* number of put calls made so far
    issued,         \* history: names of the refs put has returned so far
    hPassed,        \* history: number of puts that passed the semaphore
    hReleased,      \* history: number of releases that freed a segment
    \* ---- Future
    fut,            \* the Future object: its fields and the holder of _lock
    fpc,            \* position of every thread that uses the Future
    farg,           \* argument of the call a thread is in
    fidx,           \* loop position of a thread inside _invoke_callbacks
    fround,         \* history: which set_* call a thread is in
    nsets,          \* number of set_result / set_exception calls so far
    nadds,          \* number of add_done_callback calls so far
    invoked,        \* history: the callback invocations, in order
    \* ---- worker pool
    ppc,            \* the pool: new, started (start() returned), stopped
    workers,        \* BaseWorkerPool.workers: the worker at each list index
    active_worker_ids,  \* BaseWorkerPool.active_worker_ids: the idle queue
    wtasks,         \* BaseWorker.tasks of every worker
    wresults,       \* BaseWorker.results of every worker
    wfutures,       \* BaseWorker._futures: pairs <<task id, future>>
    wcounter,       \* BaseWorker._task_counter
    wpc,            \* position of every worker process in _run_loop
    witem,          \* the task a worker process is handling
    futs,           \* the Futures created by submit_task, in order
    jpc,            \* position of every job thread inside submit_task
    jworker,        \* the worker a job thread has acquired
    jfut,           \* the Future a job thread has created
    \* ---- _select_best_frames_per_interval
    raw_frame_scores,   \* argument: the scores of the frames, in frame order
    frame_interval,     \* argument: frames per interval
    rpc,            \* position inside the function
    scores,         \* the scores as a float32 array (indexed from 0)
    frame_index,    \* the loop variable
    best_frame_index,   \* per interval: the best frame so far
    best_score,     \* per interval: its score
    selection,      \* the three arrays returned
    \* ---- RollingBuffer
    capacity,       \* self.capacity
    rb_shape,       \* the shape of one sample
    buffer,         \* self.buffer: the ring, slot -> sample
    write_position, \* self.write_position
    is_buffer_full, \* self.is_buffer_full
    total_samples_written,  \* self.total_samples_written
    nappended,      \* history: samples appended since construction
    abs_log,        \* history: per appended sample, its absolute index
    drained,        \* history: samples returned by get() or dropped by clear()
    epoch,          \* history: clear() calls so far
    rb_last,        \* history: the last call and its argument
    rb_out,         \* what the last get_last_samples returned
    \* ---- _analyze_frames
    video_frames,   \* frames the decoder yields
    stream_block_size,  \* argument: frames per block
    apc,            \* position of the job thread inside _analyze_frames
    block_index,    \* the loop's block counter
    submitted_tasks,    \* the futures of the submitted scoring tasks
    analysis_results,   \* the results recorded by _on_block_finished
    store_active,   \* segments of the task's store that are given out
    idle_workers,   \* workers in the pool's idle queue
    wait_index,     \* position of the wait loop in submitted_tasks
    analysis_scores,    \* raw_frame_scores as handed to the reduction
    store_pool,     \* free segments of the task's store (names)
    store_created,  \* segments the task's store has created so far
    shared_memory_ref,  \* the ref the last put returned
    events,         \* history: the events emitted for the task, in order
    extract_left,   \* selected frames the extraction pass has yet to hand on
    \* ---- process
    tasks,          \* argument: the tasks, in submission order
    max_video_jobs, \* self._max_video_jobs
    proc_pc,        \* position of the caller inside process()
    jobs,           \* per task: how far _process_extraction_task has come
    results,        \* the task ids of the results collected
    proc_error,     \* the exception that left process()
    \* ---- _extract_frames
    ext_block_size, \* argument: frames per block of the second decode
    epc,            \* position inside _extract_frames
    global_start,   \* first global frame index of the current block
    handed,         \* per handler: the VideoFrameInfos handle_block received
    \* ---- AutoTaskIdMixin
    next_id,        \* cls._next_id of ExtractionTask
    id_lock,        \* the thread that holds cls._id_lock
    cpc,            \* position of every creating thread inside __post_init__
    cbegan,         \* history: tasks created when the thread's call began
    created_tasks,  \* history: the tasks created, in order of completion
    \* ---- block size
    video_size,     \* width and height the probe reports
    memory_limit_per_job_mb,    \* self.memory_limit_per_job_mb
    worker_count,   \* self._max_workers
    bpc,            \* position inside lines 140-147
    possible_block_size,    \* what _calculate_block_size returned
    block_size,     \* stream_block_size as computed in line 147
    \* ---- the video readers
    bat,            \* BatchedVideoReader.read_frames: its locals and yields
    rd              \* FfmpegIoVideoReader.read_frames: its locals and yields

storeVars == <<semaphore, pool, active, created, tpc, tshm, tlast, nputs,
               issued, hPassed, hReleased>>

futVars == <<fut, fpc, farg, fidx, fround, nsets, nadds, invoked>>

poolVars == <<ppc, workers, active_worker_ids, wtasks, wresults,
              wfutures, wcounter, wpc, witem, futs, jpc, jworker, jfut>>

redVars == <<raw_frame_scores, frame_interval, rpc, scores, frame_index,
             best_frame_index, best_score, selection>>

ringVars == <<capacity, rb_shape, buffer, write_position, is_buffer_full,
              total_samples_written, nappended, abs_log, drained, epoch,
              rb_last, rb_out>>

anVars == <<video_frames, stream_block_size, apc, block_index, submitted_tasks,
            analysis_results, store_active, idle_workers, wait_index,
            analysis_scores, store_pool, store_created, shared_memory_ref,
            events, extract_left>>

procVars == <<tasks, max_video_jobs, proc_pc, jobs, results, proc_error>>

extVars == <<ext_block_size, epc, global_start, handed>>

idVars == <<next_id, id_lock, cpc, cbegan, created_tasks>>

sizeVars == <<video_size, memory_limit_per_job_mb, worker_count, bpc,
              possible_block_size, block_size>>

readVars == <<bat, rd>>

vars == <<storeVars, futVars, poolVars, redVars, ringVars, anVars, procVars,
          extVars, idVars, sizeVars, readVars>>

\* a step of one component leaves the others alone
StoreOnly == UNCHANGED <<futVars, poolVars, redVars, ringVars, anVars, procVars,
    extVars, idVars, sizeVars, readVars>>
FutOnly == UNCHANGED <<storeVars, poolVars, redVars, ringVars, anVars, procVars,
    extVars, idVars, sizeVars, readVars>>
PoolOnly == UNCHANGED <<storeVars, futVars, redVars, ringVars, anVars, procVars,
    extVars, idVars, sizeVars, readVars>>
RedOnly == UNCHANGED <<storeVars, futVars, poolVars, ringVars, anVars, procVars,
    extVars, idVars, sizeVars, readVars>>
RingOnly == UNCHANGED <<storeVars, futVars, poolVars, redVars, anVars, procVars,
    extVars, idVars, sizeVars, readVars>>
AnOnly == UNCHANGED <<storeVars, futVars, poolVars, redVars, ringVars, procVars,
    extVars, idVars, sizeVars, readVars>>
ProcOnly == UNCHANGED <<storeVars, futVars, poolVars, redVars, ringVars, anVars,
    extVars, idVars, sizeVars, readVars>>
ExtOnly == UNCHANGED <<storeVars, futVars, poolVars, redVars, ringVars, anVars,
    procVars, idVars, sizeVars, readVars>>
IdOnly == UNCHANGED <<storeVars, futVars, poolVars, redVars, ringVars, anVars,
    procVars, extVars, sizeVars, readVars>>
SizeOnly == UNCHANGED <<storeVars, futVars, poolVars, redVars, ringVars, anVars,
    procVars, extVars, idVars, readVars>>

BatOnly == UNCHANGED <<storeVars, futVars, poolVars, redVars, ringVars, anVars,
    procVars, extVars, idVars, sizeVars, rd>>
\* FfmpegIoVideoReader works on a RollingBuffer of its own
RdOnly == UNCHANGED <<storeVars, futVars, poolVars, redVars, anVars, procVars,
    extVars, idVars, sizeVars, bat>>

None == "None"

----------------------------------------------------------------------------
(* Bounds *)

\* put calls made by the client threads together
MaxPuts == 4

\* frames of the reader that a BatchedVideoReader wraps, and its batch_size
MaxInput == 8
MaxBatch == 4

\* blocks the decoder of a FfmpegIoVideoReader delivers
MaxBlocks == 3

\* total_frame_count of a task in count mode, and the frames of its video
MaxCount == 4
MaxTotalFrames == 9

(* Program parameters *)

\* PooledSharedNDArrayStore(item_size, n_buffers)
n_buffers == 2
item_size == 1

\* set_result / set_exception calls made on the Future
MaxSets == 2
\* add_done_callback calls made on the Future
MaxAdds == 2

\* submit_task calls made on the worker pool
MaxSubmits == 2

\* frames scored before the reduction
MaxFrames == 7
\* largest frame_interval handed to the reduction
MaxInterval == 3

\* largest RollingBuffer capacity
MaxCapacity == 3
\* longest chunk handed to RollingBuffer.append
MaxChunk == 4
\* samples appended to a RollingBuffer in one run
MaxSamples == 5
\* RollingBuffer.clear() calls in one run
MaxClears == 2

\* frames of the video in the analysis pass
MaxVideoFrames == 4
\* largest stream_block_size
MaxBlockSize == 2
\* SharpFrameExtractor(max_workers=...): analyzer workers, and buffers of a
\* task's store
max_workers == 2

\* tasks handed to process()
MaxTasks == 2
\* largest max_video_jobs
MaxJobs == 2

\* FrameAnalyzerWorkerPool(num_workers)
num_workers == 1

\* ExtractionTask objects created in one run
MaxCreated == 3

\* largest max_workers handed to the block size calculation
MaxWorkerCount == 36

(* Program constants *)

\* SharpFrameExtractor.__init__: self._preferred_block_size
preferred_block_size == 32
\* SharpFrameExtractor.__init__: self._extraction_channels
extraction_channels == 3
\* args_utils.MIN_MEMORY_LIMIT, in MB
MIN_MEMORY_LIMIT == 4096
\* SharpFrameExtractor.__init__: self._analysis_channels (pixel format gray)
analysis_channels == 1

StoreThreads == {"t1", "t2", "t3"}

\* sizes of the arrays handed to put (arr.nbytes)
ArraySizes == 1..(item_size + 1)

----------------------------------------------------------------------------
(* PooledSharedNDArrayStore *)

StoreInit ==
    /\ semaphore = n_buffers
    /\ pool = <<>>
    /\ active = {}
    /\ created = 0
    /\ tpc = [t \in StoreThreads |-> "idle"]
    /\ tshm = [t \in StoreThreads |-> None]
    /\ tlast = [t \in StoreThreads |-> None]
    /\ nputs = 0
    /\ issued = {}
    /\ hPassed = 0
    /\ hReleased = 0

\* A mutant: the size is checked after the semaphore was acquired.
PutCall_AcquireFirst(t, nbytes) ==
    /\ StoreOnly
    /\ tpc[t] = "idle"
    /\ nputs < MaxPuts
    /\ nputs' = nputs + 1
    /\ IF nbytes > item_size
         THEN /\ semaphore > 0
              /\ semaphore' = semaphore - 1
              /\ tlast' = [tlast EXCEPT ![t] = "ValueError"]
              /\ tpc' = tpc
         ELSE /\ semaphore' = semaphore
              /\ tlast' = [tlast EXCEPT ![t] = None]
              /\ tpc' = [tpc EXCEPT ![t] = "put_sem"]
    /\ UNCHANGED <<pool, active, created, tshm, issued, hPassed, hReleased>>

\* put, lines 28-33: the argument checks; a too large array raises ValueError
\* before the semaphore is touched.
PutCall(t, nbytes) ==
    /\ StoreOnly
    /\ tpc[t] = "idle"
    /\ nputs < MaxPuts
    /\ nputs' = nputs + 1
    /\ IF nbytes > item_size
         THEN /\ tlast' = [tlast EXCEPT ![t] = "ValueError"]
              /\ tpc' = tpc
         ELSE /\ tlast' = [tlast EXCEPT ![t] = None]
              /\ tpc' = [tpc EXCEPT ![t] = "put_sem"]
    /\ UNCHANGED <<semaphore, pool, active, created, tshm, issued,
                   hPassed, hReleased>>

\* A mutant: the semaphore is not waited for.
PutAcquire_NoBlock(t) ==
    /\ StoreOnly
    /\ tpc[t] = "put_sem"
    /\ semaphore' = semaphore - 1
    /\ tpc' = [tpc EXCEPT ![t] = "put_lock"]
    /\ hPassed' = hPassed + 1
    /\ UNCHANGED <<pool, active, created, tshm, tlast, nputs, issued,
                   hReleased>>

\* put, line 36: self._semaphore.acquire() blocks while the value is 0.
PutAcquire(t) ==
    /\ StoreOnly
    /\ tpc[t] = "put_sem"
    /\ semaphore > 0
    /\ semaphore' = semaphore - 1
    /\ tpc' = [tpc EXCEPT ![t] = "put_lock"]
    /\ hPassed' = hPassed + 1
    /\ UNCHANGED <<pool, active, created, tshm, tlast, nputs, issued,
                   hReleased>>

\* put, lines 39-48, under self._lock: pop a free segment (list.pop takes the
\* last one) or create a new one, and enter it in self._active.
PutTake(t) ==
    /\ StoreOnly
    /\ tpc[t] = "put_lock"
    /\ IF pool # <<>>
         THEN /\ tshm' = [tshm EXCEPT ![t] = pool[Len(pool)]]
              /\ pool' = SubSeq(pool, 1, Len(pool) - 1)
              /\ created' = created
         ELSE /\ tshm' = [tshm EXCEPT ![t] = created + 1]
              /\ pool' = pool
              /\ created' = created + 1
    /\ active' = active \cup {tshm'[t]}
    /\ tpc' = [tpc EXCEPT ![t] = "put_copy"]
    /\ UNCHANGED <<semaphore, tlast, nputs, issued, hPassed,
                   hReleased>>

\* put, lines 51-54: copy the data and return the SharedNDArrayRef.
PutReturn(t) ==
    /\ StoreOnly
    /\ tpc[t] = "put_copy"
    /\ tlast' = [tlast EXCEPT ![t] = "ref"]
    /\ tshm' = [tshm EXCEPT ![t] = None]
    /\ tpc' = [tpc EXCEPT ![t] = "idle"]
    /\ issued' = issued \cup {tshm[t]}
    /\ UNCHANGED <<semaphore, pool, active, created, nputs, hPassed,
                   hReleased>>

\* A mutant: the semaphore is signalled whether or not the ref was active.
StoreRelease_NoCheck(name) ==
    /\ StoreOnly
    /\ active' = active \ {name}
    /\ pool' = Append(pool, name)
    /\ semaphore' = semaphore + 1
    /\ hReleased' = IF name \in active THEN hReleased + 1 ELSE hReleased
    /\ UNCHANGED <<created, tpc, tshm, tlast, nputs, issued, hPassed>>

\* release, lines 56-63, under self._lock.
StoreRelease(name) ==
    /\ StoreOnly
    /\ IF name \in active
         THEN /\ active' = active \ {name}
              /\ pool' = Append(pool, name)
              /\ semaphore' = semaphore + 1
              /\ hReleased' = hReleased + 1
         ELSE UNCHANGED <<active, pool, semaphore, hReleased>>
    /\ UNCHANGED <<created, tpc, tshm, tlast, nputs, issued, hPassed>>

\* release_all, lines 65-75, under self._lock: every segment is closed and
\* unlinked; the semaphore is left as it is.
StoreReleaseAll ==
    /\ StoreOnly
    /\ active' = {}
    /\ pool' = <<>>
    /\ UNCHANGED <<semaphore, created, tpc, tshm, tlast, nputs, issued,
                   hPassed, hReleased>>


StoreNext ==
    \/ \E t \in StoreThreads, nbytes \in ArraySizes : PutCall(t, nbytes)
    \/ \E t \in StoreThreads : PutAcquire(t)
    \/ \E t \in StoreThreads : PutTake(t)
    \/ \E t \in StoreThreads : PutReturn(t)
    \/ \E name \in issued : StoreRelease(name)
    \/ StoreReleaseAll


----------------------------------------------------------------------------
(* Future (worker/Future.py) *)

FutThreads == {"u1", "u2", "u3"}
\* the thread that resolves the Future: the listener thread of the worker the
\* task went to. The other threads register callbacks only.
Resolvers == {"u1"}

\* values passed to set_result, errors passed to set_exception
ResultValues == {"r1", "r2"}
Errors == {"e1"}

\* Future.__init__, lines 17-23; lock is the thread holding self._lock
FutureNew ==
    [result |-> None, exception |-> None, done |-> FALSE,
     callbacks_done |-> FALSE, callbacks |-> <<>>, lock |-> None]

FutInit ==
    /\ fut = FutureNew
    /\ fpc = [t \in FutThreads |-> "idle"]
    /\ farg = [t \in FutThreads |-> None]
    /\ fidx = [t \in FutThreads |-> 0]
    /\ fround = [t \in FutThreads |-> 0]
    /\ nsets = 0
    /\ nadds = 0
    /\ invoked = <<>>

\* result(), lines 62-72, once _done is set: what the caller gets
result == IF fut.exception # None
            THEN <<"raise", fut.exception>>
            ELSE <<"return", fut.result>>

\* done(), lines 83-84
done == fut.done

\* wait(), lines 74-81, without timeout: returns True once both events are set
wait_returns == fut.done /\ fut.callbacks_done

\* A thread calls set_result(value) or set_exception(error).
SetCall(t, op, x) ==
    /\ FutOnly
    /\ fpc[t] = "idle"
    /\ nsets < MaxSets
    /\ nsets' = nsets + 1
    /\ fround' = [fround EXCEPT ![t] = nsets + 1]
    /\ farg' = [farg EXCEPT ![t] = <<op, x>>]
    /\ fpc' = [fpc EXCEPT ![t] = "set_lock"]
    /\ UNCHANGED <<fut, fidx, nadds, invoked>>

\* A mutant of the lock: a thread enters although another one holds it.
AcquireLock_NoExclusion(t, here, next) ==
    /\ FutOnly
    /\ fpc[t] = here
    /\ fut' = [fut EXCEPT !.lock = t]
    /\ fpc' = [fpc EXCEPT ![t] = next]
    /\ UNCHANGED <<farg, fidx, fround, nsets, nadds, invoked>>

\* with self._lock (lines 34, 43, 56): blocks while another thread holds it
AcquireLock(t, here, next) ==
    /\ FutOnly
    /\ fpc[t] = here
    /\ fut.lock = None
    /\ fut' = [fut EXCEPT !.lock = t]
    /\ fpc' = [fpc EXCEPT ![t] = next]
    /\ UNCHANGED <<farg, fidx, fround, nsets, nadds, invoked>>

SetLock(t) == AcquireLock(t, "set_lock", "set_store")

\* set_result line 35: self._result = result;
\* set_exception line 44: self._exception = exception
SetStore(t) ==
    /\ FutOnly
    /\ fpc[t] = "set_store"
    /\ fut' = IF farg[t][1] = "set_result"
                THEN [fut EXCEPT !.result = farg[t][2]]
                ELSE [fut EXCEPT !.exception = farg[t][2]]
    /\ fpc' = [fpc EXCEPT ![t] = "set_done"]
    /\ UNCHANGED <<farg, fidx, fround, nsets, nadds, invoked>>

\* A mutant: both events are set before the callbacks run.
SetDone_SignalsEarly(t) ==
    /\ FutOnly
    /\ fpc[t] = "set_done"
    /\ fut' = [fut EXCEPT !.done = TRUE, !.callbacks_done = TRUE]
    /\ fidx' = [fidx EXCEPT ![t] = 1]
    /\ fpc' = [fpc EXCEPT ![t] = IF fut.callbacks # <<>> THEN "invoke"
                                                          ELSE "set_cbdone"]
    /\ UNCHANGED <<farg, fround, nsets, nadds, invoked>>

\* lines 36-40 and 45-49: self._done.set(), then _invoke_callbacks() when
\* there are callbacks, otherwise _callbacks_done.set()
SetDone(t) ==
    /\ FutOnly
    /\ fpc[t] = "set_done"
    /\ fut' = [fut EXCEPT !.done = TRUE]
    /\ fidx' = [fidx EXCEPT ![t] = 1]
    /\ fpc' = [fpc EXCEPT ![t] = IF fut.callbacks # <<>> THEN "invoke"
                                                          ELSE "set_cbdone"]
    /\ UNCHANGED <<farg, fround, nsets, nadds, invoked>>

\* A mutant: the list is walked from its end.
NextCallback_Reversed(t) == fut.callbacks[Len(fut.callbacks) + 1 - fidx[t]]

\* _invoke_callbacks line 26: for callback in self._callbacks
NextCallback(t) == fut.callbacks[fidx[t]]

\* the callbacks that raise an exception when they are called: the one
\* registered first
RaisingCallbacks == {1}

\* A mutant: the loop has no except clause, the exception of a callback
\* leaves set_result / set_exception through its with block.
InvokeOne_Propagates(t) ==
    /\ FutOnly
    /\ fpc[t] = "invoke"
    /\ fidx[t] <= Len(fut.callbacks)
    /\ invoked' = Append(invoked, [cb |-> NextCallback(t), by |-> t,
                                   round |-> fround[t]])
    /\ fidx' = [fidx EXCEPT ![t] = @ + 1]
    /\ fpc' = [fpc EXCEPT ![t] = IF NextCallback(t) \in RaisingCallbacks
                                   THEN "set_exit" ELSE @]
    /\ UNCHANGED <<fut, farg, fround, nsets, nadds>>

\* _invoke_callbacks lines 26-30: one callback is called; an exception it
\* raises is caught and logged, and the loop goes on.
InvokeOne(t) ==
    /\ FutOnly
    /\ fpc[t] = "invoke"
    /\ fidx[t] <= Len(fut.callbacks)
    /\ invoked' = Append(invoked, [cb |-> NextCallback(t), by |-> t,
                                   round |-> fround[t]])
    /\ fidx' = [fidx EXCEPT ![t] = @ + 1]
    /\ UNCHANGED <<fut, fpc, farg, fround, nsets, nadds>>

\* _invoke_callbacks: the loop ends
InvokeEnd(t) ==
    /\ FutOnly
    /\ fpc[t] = "invoke"
    /\ fidx[t] > Len(fut.callbacks)
    /\ fpc' = [fpc EXCEPT ![t] = "set_cbdone"]
    /\ UNCHANGED <<fut, farg, fidx, fround, nsets, nadds, invoked>>

\* lines 31, 40, 49: self._callbacks_done.set()
SetCallbacksDone(t) ==
    /\ FutOnly
    /\ fpc[t] = "set_cbdone"
    /\ fut' = [fut EXCEPT !.callbacks_done = TRUE]
    /\ fpc' = [fpc EXCEPT ![t] = "set_exit"]
    /\ UNCHANGED <<farg, fidx, fround, nsets, nadds, invoked>>

\* the with block of set_result / set_exception is left
SetExit(t) ==
    /\ FutOnly
    /\ fpc[t] = "set_exit"
    /\ fut' = [fut EXCEPT !.lock = None]
    /\ fpc' = [fpc EXCEPT ![t] = "idle"]
    /\ farg' = [farg EXCEPT ![t] = None]
    /\ fidx' = [fidx EXCEPT ![t] = 0]
    /\ fround' = [fround EXCEPT ![t] = 0]
    /\ UNCHANGED <<nsets, nadds, invoked>>

\* A thread calls add_done_callback(fn); fn is a callback of its own (id).
\* atcall records whether the Future was done at the moment of the call.
AddCall(t) ==
    /\ FutOnly
    /\ fpc[t] = "idle"
    /\ nadds < MaxAdds
    /\ nadds' = nadds + 1
    /\ farg' = [farg EXCEPT ![t] = [id |-> nadds + 1, atcall |-> fut.done]]
    /\ fpc' = [fpc EXCEPT ![t] = "add_lock"]
    /\ UNCHANGED <<fut, fidx, fround, nsets, invoked>>

AddLock(t) == AcquireLock(t, "add_lock", "add_check")

\* A mutant: the callback is always appended, also when the Future is done.
AddCheck_AlwaysAppend(t) ==
    /\ FutOnly
    /\ fpc[t] = "add_check"
    /\ fpc' = [fpc EXCEPT ![t] = "add_append"]
    /\ UNCHANGED <<fut, farg, fidx, fround, nsets, nadds, invoked>>

\* add_done_callback line 57: if self._done.is_set()
AddCheck(t) ==
    /\ FutOnly
    /\ fpc[t] = "add_check"
    /\ fpc' = [fpc EXCEPT ![t] = IF fut.done THEN "add_call" ELSE "add_append"]
    /\ UNCHANGED <<fut, farg, fidx, fround, nsets, nadds, invoked>>

\* add_done_callback line 58: fn(self), on the calling thread
AddCallNow(t) ==
    /\ FutOnly
    /\ fpc[t] = "add_call"
    /\ invoked' = Append(invoked, [cb |-> farg[t].id, by |-> t, round |-> 0])
    /\ fpc' = [fpc EXCEPT ![t] = "add_exit"]
    /\ UNCHANGED <<fut, farg, fidx, fround, nsets, nadds>>

\* add_done_callback line 60: self._callbacks.append(fn)
AddAppend(t) ==
    /\ FutOnly
    /\ fpc[t] = "add_append"
    /\ fut' = [fut EXCEPT !.callbacks = Append(@, farg[t].id)]
    /\ fpc' = [fpc EXCEPT ![t] = "add_exit"]
    /\ UNCHANGED <<farg, fidx, fround, nsets, nadds, invoked>>

\* the with block of add_done_callback is left: the lock is released and the
\* call returns (or the callback's exception propagates to the caller)
AddExit(t) ==
    /\ FutOnly
    /\ fpc[t] = "add_exit"
    /\ fut' = [fut EXCEPT !.lock = None]
    /\ fpc' = [fpc EXCEPT ![t] = "idle"]
    /\ farg' = [farg EXCEPT ![t] = None]
    /\ UNCHANGED <<fidx, fround, nsets, nadds, invoked>>

FutNext ==
    \/ \E t \in Resolvers, v \in ResultValues : SetCall(t, "set_result", v)
    \/ \E t \in Resolvers, e \in Errors : SetCall(t, "set_exception", e)
    \/ \E t \in FutThreads : SetLock(t)
    \/ \E t \in FutThreads : SetStore(t)
    \/ \E t \in FutThreads : SetDone(t)
    \/ \E t \in FutThreads : InvokeOne(t)
    \/ \E t \in FutThreads : InvokeEnd(t)
    \/ \E t \in FutThreads : SetCallbacksDone(t)
    \/ \E t \in FutThreads : SetExit(t)
    \/ \E t \in FutThreads : AddCall(t)
    \/ \E t \in FutThreads : AddLock(t)
    \/ \E t \in FutThreads : AddCheck(t)
    \/ \E t \in FutThreads : AddCallNow(t)
    \/ \E t \in FutThreads : AddAppend(t)
    \/ \E t \in FutThreads : AddExit(t)

----------------------------------------------------------------------------
(* BaseWorker, BaseWorkerPool and FrameAnalyzerWorkerPool *)

\* BaseWorkerPool.start line 28: worker ids are range(num_workers)
WorkerIds == 0..(num_workers - 1)
\* the threads (video jobs) that call FrameAnalyzerWorkerPool.submit_task
Jobs == {"j1", "j2"}
\* what scoring a task does: return scores or raise
TaskKinds == {"good", "bad"}
\* BaseWorker.stop line 114: the stop sentinel (None) put on the task queue
StopSentinel == [task_id |-> -1, block |-> 0, kind |-> "stop"]
\* no task in hand
NoItem == [task_id |-> -1, block |-> 0, kind |-> "none"]
\* Future.__init__ lines 20-21: _result and _exception start as None
NoValue == <<"none", 0>>

\* the result a worker computes for the task of future k, and the exception
\* it raises when scoring fails
ScoresOf(k) == <<"scores", k>>
ErrorOf(k) == <<"error", k>>

\* BaseWorkerPool.__init__ lines 19-24 and BaseWorker.__init__ lines 22-36:
\* no worker exists before start(); every worker is built with empty queues,
\* an empty _futures dict and _task_counter = 0.
PoolInit ==
    /\ ppc = "new"
    /\ workers = <<>>
    /\ active_worker_ids = <<>>
    /\ wtasks = [w \in WorkerIds |-> <<>>]
    /\ wresults = [w \in WorkerIds |-> <<>>]
    /\ wfutures = [w \in WorkerIds |-> {}]
    /\ wcounter = [w \in WorkerIds |-> 0]
    /\ wpc = [w \in WorkerIds |-> "unborn"]
    /\ witem = [w \in WorkerIds |-> NoItem]
    /\ futs = <<>>
    /\ jpc = [j \in Jobs |-> "idle"]
    /\ jworker = [j \in Jobs |-> -1]
    /\ jfut = [j \in Jobs |-> 0]

\* BaseWorkerPool.start lines 26-33: every worker is created and started,
\* appended to self.workers, and its id put on active_worker_ids.
PoolStart ==
    /\ PoolOnly
    /\ ppc = "new"
    /\ ppc' = "started"
    /\ workers' = [i \in 1..num_workers |-> i - 1]
    /\ active_worker_ids' = [i \in 1..num_workers |-> i - 1]
    /\ wpc' = [w \in WorkerIds |-> "get"]
    /\ UNCHANGED <<wtasks, wresults, wfutures, wcounter, witem, futs,
                   jpc, jworker, jfut>>

\* A thread calls FrameAnalyzerWorkerPool.submit_task(task), line 32.
SubmitCall(j) ==
    /\ PoolOnly
    /\ jpc[j] = "idle"
    /\ Len(futs) + Cardinality({i \in Jobs : jpc[i] \in {"acquire", "register"}})
          < MaxSubmits
    /\ jpc' = [jpc EXCEPT ![j] = "acquire"]
    /\ UNCHANGED <<ppc, workers, active_worker_ids, wtasks, wresults,
                   wfutures, wcounter, wpc, witem, futs, jworker, jfut>>

\* A mutant: the worker id is read but left on the queue.
Acquire_Peek(j) ==
    /\ PoolOnly
    /\ jpc[j] = "acquire"
    /\ active_worker_ids # <<>>
    /\ jworker' = [jworker EXCEPT ![j] = workers[Head(active_worker_ids) + 1]]
    /\ jpc' = [jpc EXCEPT ![j] = "register"]
    /\ UNCHANGED <<ppc, workers, active_worker_ids, wtasks, wresults,
                   wfutures, wcounter, wpc, witem, futs, jfut>>

\* BaseWorkerPool.acquire lines 35-43 (submit_task line 37):
\* active_worker_ids.get() blocks while the queue is empty.
Acquire(j) ==
    /\ PoolOnly
    /\ jpc[j] = "acquire"
    /\ active_worker_ids # <<>>
    /\ jworker' = [jworker EXCEPT ![j] = workers[Head(active_worker_ids) + 1]]
    /\ active_worker_ids' = Tail(active_worker_ids)
    /\ jpc' = [jpc EXCEPT ![j] = "register"]
    /\ UNCHANGED <<ppc, workers, wtasks, wresults, wfutures, wcounter,
                   wpc, witem, futs, jfut>>

\* A mutant: the entry in self._futures is keyed by the counter after its
\* increment, the task keeps the id read before it.
Register_KeyAfterIncrement(j, kind) ==
    /\ PoolOnly
    /\ jpc[j] = "register"
    /\ LET w == jworker[j]
           k == Len(futs) + 1
           tid == wcounter[w]
       IN  /\ futs' = Append(futs, [result |-> NoValue, exception |-> NoValue,
                                    done |-> FALSE, callbacks_done |-> FALSE,
                                    callbacks |-> <<>>,
                                    worker |-> w, task_id |-> tid,
                                    kind |-> kind])
           /\ wcounter' = [wcounter EXCEPT ![w] = tid + 1]
           /\ wfutures' = [wfutures EXCEPT ![w] =
                             {p \in @ : p[1] # tid + 1} \cup {<<tid + 1, k>>}]
           /\ jfut' = [jfut EXCEPT ![j] = k]
    /\ jpc' = [jpc EXCEPT ![j] = "put"]
    /\ UNCHANGED <<ppc, workers, active_worker_ids, wtasks, wresults,
                   wpc, witem, jworker>>

\* BaseWorker.submit_task lines 97-100: a new Future, the next task id, and
\* the entry in self._futures. kind is what scoring the submitted task does.
Register(j, kind) ==
    /\ PoolOnly
    /\ jpc[j] = "register"
    /\ LET w == jworker[j]
           k == Len(futs) + 1
           tid == wcounter[w]
       IN  /\ futs' = Append(futs, [result |-> NoValue, exception |-> NoValue,
                                    done |-> FALSE, callbacks_done |-> FALSE,
                                    callbacks |-> <<>>,
                                    worker |-> w, task_id |-> tid,
                                    kind |-> kind])
           /\ wcounter' = [wcounter EXCEPT ![w] = tid + 1]
           /\ wfutures' = [wfutures EXCEPT ![w] =
                             {p \in @ : p[1] # tid} \cup {<<tid, k>>}]
           /\ jfut' = [jfut EXCEPT ![j] = k]
    /\ jpc' = [jpc EXCEPT ![j] = "put"]
    /\ UNCHANGED <<ppc, workers, active_worker_ids, wtasks, wresults,
                   wpc, witem, jworker>>

\* BaseWorker.submit_task line 101: self.tasks.put((task_id, task)); the
\* task is the block of future k, whose scoring returns or raises.
TaskPut(j) ==
    /\ PoolOnly
    /\ jpc[j] = "put"
    /\ LET w == jworker[j]
           k == jfut[j]
       IN  wtasks' = [wtasks EXCEPT ![w] =
                        Append(@, [task_id |-> futs[k].task_id, block |-> k,
                                   kind |-> futs[k].kind])]
    /\ jpc' = [jpc EXCEPT ![j] = "add_callback"]
    /\ UNCHANGED <<ppc, workers, active_worker_ids, wresults, wfutures,
                   wcounter, wpc, witem, futs, jworker, jfut>>

\* A mutant: the worker id is put on the queue twice.
Released_Twice(queue, w) == Append(Append(queue, w), w)

\* BaseWorkerPool.release lines 45-50: the queue after release(worker)
Released(queue, w) == Append(queue, w)

\* The effect of running the callbacks cbs, in order, on the idle queue; a
\* callback here is the lambda of submit_task line 41, which releases its
\* worker.
RECURSIVE RunCallbacks(_, _)
RunCallbacks(cbs, queue) ==
    IF cbs = <<>> THEN queue
    ELSE RunCallbacks(Tail(cbs), Released(queue, Head(cbs).release))

\* A mutant: the worker is released at once, whatever the Future's state.
AddReleaseCallback_ReleaseNow(j) ==
    /\ PoolOnly
    /\ jpc[j] = "add_callback"
    /\ active_worker_ids' = Released(active_worker_ids, jworker[j])
    /\ jpc' = [jpc EXCEPT ![j] = "idle"]
    /\ jworker' = [jworker EXCEPT ![j] = -1]
    /\ jfut' = [jfut EXCEPT ![j] = 0]
    /\ UNCHANGED <<ppc, workers, wtasks, wresults, wfutures, wcounter,
                   wpc, witem, futs>>

\* submit_task lines 41-43: future.add_done_callback(lambda _:
\* self.release(worker)), one step under the Future's lock (Future.py lines
\* 56-60): the worker is released now when the Future is done, else the
\* callback is appended; then the Future is returned.
AddReleaseCallback(j) ==
    /\ PoolOnly
    /\ jpc[j] = "add_callback"
    /\ LET k == jfut[j]
           cb == [release |-> jworker[j]]
       IN  IF futs[k].done
             THEN /\ active_worker_ids' = RunCallbacks(<<cb>>, active_worker_ids)
                  /\ futs' = futs
             ELSE /\ futs' = [futs EXCEPT ![k].callbacks = Append(@, cb)]
                  /\ active_worker_ids' = active_worker_ids
    /\ jpc' = [jpc EXCEPT ![j] = "idle"]
    /\ jworker' = [jworker EXCEPT ![j] = -1]
    /\ jfut' = [jfut EXCEPT ![j] = 0]
    /\ UNCHANGED <<ppc, workers, wtasks, wresults, wfutures, wcounter,
                   wpc, witem>>

\* _run_loop lines 43-50: item = self.tasks.get(); the stop sentinel sets
\* stop_requested, which ends the loop and runs cleanup().
WorkerGet(w) ==
    /\ PoolOnly
    /\ wpc[w] = "get"
    /\ wtasks[w] # <<>>
    /\ wtasks' = [wtasks EXCEPT ![w] = Tail(@)]
    /\ IF Head(wtasks[w]) = StopSentinel
         THEN /\ wpc' = [wpc EXCEPT ![w] = "stopped"]
              /\ witem' = witem
         ELSE /\ wpc' = [wpc EXCEPT ![w] = "handle"]
              /\ witem' = [witem EXCEPT ![w] = Head(wtasks[w])]
    /\ UNCHANGED <<ppc, workers, active_worker_ids, wresults, wfutures,
                   wcounter, futs, jpc, jworker, jfut>>

\* A mutant: an exception of handle_task ends the worker process.
WorkerHandle_Crash(w) ==
    /\ PoolOnly
    /\ wpc[w] = "handle"
    /\ IF witem[w].kind = "bad"
         THEN /\ wpc' = [wpc EXCEPT ![w] = "stopped"]
              /\ wresults' = wresults
         ELSE /\ wpc' = [wpc EXCEPT ![w] = "get"]
              /\ wresults' = [wresults EXCEPT ![w] =
                    Append(@, <<witem[w].task_id, ScoresOf(witem[w].block)>>)]
    /\ witem' = [witem EXCEPT ![w] = NoItem]
    /\ UNCHANGED <<ppc, workers, active_worker_ids, wtasks, wfutures,
                   wcounter, futs, jpc, jworker, jfut>>

\* _run_loop lines 50-56: handle_task(task); its result, or the exception it
\* raised, is put on the results queue with the task id.
WorkerHandle(w) ==
    /\ PoolOnly
    /\ wpc[w] = "handle"
    /\ wresults' = [wresults EXCEPT ![w] =
          Append(@, <<witem[w].task_id,
                      IF witem[w].kind = "bad" THEN ErrorOf(witem[w].block)
                                               ELSE ScoresOf(witem[w].block)>>)]
    /\ wpc' = [wpc EXCEPT ![w] = "get"]
    /\ witem' = [witem EXCEPT ![w] = NoItem]
    /\ UNCHANGED <<ppc, workers, active_worker_ids, wtasks, wfutures,
                   wcounter, futs, jpc, jworker, jfut>>

\* Future.set_result / set_exception (Future.py lines 33-49) as one step
\* under the Future's lock: the value is stored, _done is set, the callbacks
\* run in order, _callbacks_done is set.
Resolved(f, item) ==
    IF item[1] = "error"
      THEN [f EXCEPT !.exception = item, !.done = TRUE, !.callbacks_done = TRUE]
      ELSE [f EXCEPT !.result = item, !.done = TRUE, !.callbacks_done = TRUE]

\* _result_listener lines 78-89: item = self.results.get(); the Future is
\* popped from self._futures by task id and resolved, with set_exception
\* when the item is an exception.
ListenerResolve(w) ==
    /\ PoolOnly
    /\ ppc # "new"
    /\ wresults[w] # <<>>
    /\ wresults' = [wresults EXCEPT ![w] = Tail(@)]
    /\ LET tid == Head(wresults[w])[1]
           item == Head(wresults[w])[2]
           found == {p \in wfutures[w] : p[1] = tid}
       IN  /\ wfutures' = [wfutures EXCEPT ![w] = @ \ found]
           /\ IF found = {}
                THEN UNCHANGED <<futs, active_worker_ids>>
                ELSE LET k == (CHOOSE p \in found : TRUE)[2]
                     IN  /\ futs' = [futs EXCEPT ![k] = Resolved(@, item)]
                         /\ active_worker_ids' =
                               RunCallbacks(futs[k].callbacks, active_worker_ids)
    /\ UNCHANGED <<ppc, workers, wtasks, wcounter, wpc, witem,
                   jpc, jworker, jfut>>

\* BaseWorkerPool.stop lines 52-59 with BaseWorker.stop line 114: the stop
\* sentinel is put on every worker's task queue, and stop() returns. The
\* puts go to different queues, so the loop is taken as one step.
PoolStop ==
    /\ PoolOnly
    /\ ppc = "started"
    /\ ppc' = "stopped"
    /\ wtasks' = [w \in WorkerIds |->
                    IF \E i \in 1..Len(workers) : workers[i] = w
                      THEN Append(wtasks[w], StopSentinel) ELSE wtasks[w]]
    /\ UNCHANGED <<workers, active_worker_ids, wresults, wfutures, wcounter,
                   wpc, witem, futs, jpc, jworker, jfut>>

PoolNext ==
    \/ PoolStart
    \/ \E j \in Jobs : SubmitCall(j)
    \/ \E j \in Jobs : Acquire(j)
    \/ \E j \in Jobs, kind \in TaskKinds : Register(j, kind)
    \/ \E j \in Jobs : TaskPut(j)
    \/ \E j \in Jobs : AddReleaseCallback(j)
    \/ \E w \in WorkerIds : WorkerGet(w)
    \/ \E w \in WorkerIds : WorkerHandle(w)
    \/ \E w \in WorkerIds : ListenerResolve(w)
    \/ PoolStop

----------------------------------------------------------------------------
(* SharpFrameExtractor._select_best_frames_per_interval *)

\* raw scores handed to the reduction: small ones, and ones at the edge of
\* float32's 24-bit mantissa
ScoreValues == {0, 16777216, 16777217}

\* -np.inf, below every score
NegInf == -1

\* 2^24: up to here float32 holds every integer
Float32Exact == 16777216

\* np.asarray(raw_frame_scores, dtype=np.float32), line 306, for one score
\* below 2^25: above 2^24 float32 holds the even integers only and rounds a
\* tie to the even mantissa.
ToFloat32(x) ==
    IF x <= Float32Exact \/ x % 2 = 0 THEN x
    ELSE IF ((x - 1) \div 2) % 2 = 0 THEN x - 1 ELSE x + 1

\* A mutant: one interval too many when the division is exact.
NumIntervals_PlusOne(n, interval) == (n \div interval) + 1

\* lines 315-316: interval_index = arange(n) // frame_interval;
\* num_intervals = interval_index[-1] + 1
NumIntervals(n, interval) == ((n - 1) \div interval) + 1

\* np.argsort(keys, kind="stable"), line 330, for keys indexed from 0: the
\* index at each (0-based) position of the sorted order; equal keys keep
\* their order.
StableArgsort(keys) ==
    LET idx == DOMAIN keys
        Rank(i) == Cardinality({h \in idx : keys[h] < keys[i]
                                            \/ (keys[h] = keys[i] /\ h < i)})
    IN  [p \in idx |-> CHOOSE i \in idx : Rank(i) = p]

\* arr[order] as a sequence
Gather(arr, order) == [p \in 1..Cardinality(DOMAIN order) |-> arr[order[p - 1]]]

EmptySelection == [interval_index |-> <<>>, frame_index |-> <<>>, score |-> <<>>]

\* the reduction has not been called
RedIdle ==
    /\ raw_frame_scores = <<>>
    /\ frame_interval = 1
    /\ rpc = "idle"
    /\ scores = <<>>
    /\ frame_index = 0
    /\ best_frame_index = <<>>
    /\ best_score = <<>>
    /\ selection = EmptySelection

\* the arguments of a call: any score list up to MaxFrames frames, any
\* frame_interval from 0 (rejected) to MaxInterval
RedInit ==
    /\ raw_frame_scores \in UNION {[1..n -> ScoreValues] : n \in 0..MaxFrames}
    /\ frame_interval \in 0..MaxInterval
    /\ rpc = "call"
    /\ scores = <<>>
    /\ frame_index = 0
    /\ best_frame_index = <<>>
    /\ best_score = <<>>
    /\ selection = EmptySelection

\* lines 303-304: frame_interval <= 0 raises ValueError
RedReject ==
    /\ RedOnly
    /\ rpc = "call"
    /\ frame_interval <= 0
    /\ rpc' = "ValueError"
    /\ UNCHANGED <<raw_frame_scores, frame_interval, scores, frame_index,
                   best_frame_index, best_score, selection>>

\* lines 306-313: the scores as float32; an empty list gives three empty
\* arrays
RedEmpty ==
    /\ RedOnly
    /\ rpc = "call"
    /\ frame_interval > 0
    /\ Len(raw_frame_scores) = 0
    /\ selection' = EmptySelection
    /\ rpc' = "done"
    /\ UNCHANGED <<raw_frame_scores, frame_interval, scores, frame_index,
                   best_frame_index, best_score>>

\* lines 306-319: the scores as float32 (indexed from 0), and the running
\* best of every interval: frame 0 and -inf
RedSetup ==
    /\ RedOnly
    /\ rpc = "call"
    /\ frame_interval > 0
    /\ Len(raw_frame_scores) > 0
    /\ LET n == Len(raw_frame_scores)
           num_intervals == NumIntervals(n, frame_interval)
       IN  /\ scores' = [i \in 0..(n - 1) |-> ToFloat32(raw_frame_scores[i + 1])]
           /\ best_frame_index' = [q \in 0..(num_intervals - 1) |-> 0]
           /\ best_score' = [q \in 0..(num_intervals - 1) |-> NegInf]
    /\ frame_index' = 0
    /\ rpc' = "loop"
    /\ UNCHANGED <<raw_frame_scores, frame_interval, selection>>

\* A mutant of the loop: >= lets the last frame of a tie win.
RedLoop_LastWins ==
    /\ RedOnly
    /\ rpc = "loop"
    /\ frame_index < Len(raw_frame_scores)
    /\ LET ii == frame_index \div frame_interval
           s == scores[frame_index]
       IN  IF s >= best_score[ii]
             THEN /\ best_score' = [best_score EXCEPT ![ii] = s]
                  /\ best_frame_index' = [best_frame_index EXCEPT ![ii] = frame_index]
             ELSE UNCHANGED <<best_score, best_frame_index>>
    /\ frame_index' = frame_index + 1
    /\ UNCHANGED <<raw_frame_scores, frame_interval, rpc, scores, selection>>

\* lines 321-326: one pass of the loop over the frames
RedLoop ==
    /\ RedOnly
    /\ rpc = "loop"
    /\ frame_index < Len(raw_frame_scores)
    /\ LET ii == frame_index \div frame_interval
           s == scores[frame_index]
       IN  IF s > best_score[ii]
             THEN /\ best_score' = [best_score EXCEPT ![ii] = s]
                  /\ best_frame_index' = [best_frame_index EXCEPT ![ii] = frame_index]
             ELSE UNCHANGED <<best_score, best_frame_index>>
    /\ frame_index' = frame_index + 1
    /\ UNCHANGED <<raw_frame_scores, frame_interval, rpc, scores, selection>>

\* lines 328-331: the intervals in the stable order of their best frame
RedReturn ==
    /\ RedOnly
    /\ rpc = "loop"
    /\ frame_index = Len(raw_frame_scores)
    /\ LET out_interval_index == [q \in DOMAIN best_frame_index |-> q]
           order == StableArgsort(best_frame_index)
       IN  selection' = [interval_index |-> Gather(out_interval_index, order),
                         frame_index |-> Gather(best_frame_index, order),
                         score |-> Gather(best_score, order)]
    /\ rpc' = "done"
    /\ UNCHANGED <<raw_frame_scores, frame_interval, scores, frame_index,
                   best_frame_index, best_score>>

RedNext ==
    \/ RedReject
    \/ RedEmpty
    \/ RedSetup
    \/ RedLoop
    \/ RedReturn

----------------------------------------------------------------------------
(* RollingBuffer (memory/rolling_buffer.py) *)

\* shape of one sample: () for a scalar, (2,) for a frame of two elements
SampleShapes == {"scalar", "frame"}

\* the k-th sample ever appended, in the buffer's dtype and shape
Sample(k) == IF rb_shape = "scalar" THEN k ELSE <<k, k + 100>>

\* one row of np.zeros((capacity,) + shape), line 105
ZeroSample == IF rb_shape = "scalar" THEN 0 ELSE <<0, 0>>

NoCall == [op |-> "none", n |-> 0]

\* RollingBuffer.__init__, lines 94-110
RbNew ==
    /\ capacity \in 1..MaxCapacity
    /\ rb_shape \in SampleShapes
    /\ buffer = [i \in 0..(capacity - 1) |-> ZeroSample]
    /\ write_position = 0
    /\ is_buffer_full = FALSE
    /\ total_samples_written = 0
    /\ nappended = 0
    /\ abs_log = <<>>
    /\ drained = {}
    /\ epoch = 0
    /\ rb_last = NoCall
    /\ rb_out = <<>>

\* no RollingBuffer is in use
RbIdle ==
    /\ capacity = 1
    /\ rb_shape = "scalar"
    /\ buffer = [i \in 0..0 |-> 0]
    /\ write_position = 0
    /\ is_buffer_full = FALSE
    /\ total_samples_written = 0
    /\ nappended = 0
    /\ abs_log = <<>>
    /\ drained = {}
    /\ epoch = 0
    /\ rb_last = NoCall
    /\ rb_out = <<>>

\* __len__, lines 277-278
RbLen == IF is_buffer_full THEN capacity ELSE write_position

\* free, lines 298-305
RbFree == capacity - RbLen

\* IndexingView.absolute_start_index, lines 14-21
absolute_start_index == total_samples_written - RbLen

\* IndexingView.absolute_end_index, lines 23-30
absolute_end_index == total_samples_written

\* A mutant: the chunk is written from the start of the ring.
WriteSlot_FromZero(k) == k % capacity

\* lines 133-139: the ring slot of the k-th sample (from 0) of a chunk
\* shorter than the capacity
WriteSlot(k) == (write_position + k) % capacity

\* A mutant: the counter stops at the capacity.
NextTotal_Capped(n) ==
    IF total_samples_written + n > capacity THEN capacity
    ELSE total_samples_written + n

\* lines 130 and 144: total_samples_written += n
NextTotal(n) == total_samples_written + n

\* A mutant: the write cursor is ignored.
PhysicalStart_NoCursor(start_index) == start_index % capacity

\* line 188
PhysicalStart(start_index) == (write_position + start_index) % capacity

\* buf[lo:hi] of a ring given as a function on 0..capacity-1
Rows(buf, lo, hi) == [p \in 1..(hi - lo) |-> buf[lo + p - 1]]

Min2(a, b) == IF a < b THEN a ELSE b
Max2(a, b) == IF a > b THEN a ELSE b

\* RollingBuffer.slice(start, stop, copy=True), lines 155-198
RbSlice(start, stop) ==
    LET total == RbLen
        s0 == IF start < 0 THEN start + total ELSE start
        e0 == IF stop < 0 THEN stop + total ELSE stop
        start_index == Max2(0, Min2(s0, total))
        stop_index == Max2(0, Min2(e0, total))
        count == stop_index - start_index
        physical_start == PhysicalStart(start_index)
        head == capacity - physical_start
    IN  IF total = 0 \/ stop_index <= start_index THEN <<>>
        ELSE IF ~is_buffer_full THEN Rows(buffer, start_index, stop_index)
        ELSE IF count <= head
               THEN Rows(buffer, physical_start, physical_start + count)
               ELSE Rows(buffer, physical_start, capacity)
                    \o Rows(buffer, 0, count - head)

\* the ids of the samples appended by the next chunk of n samples
ChunkIds(n) == (nappended + 1)..(nappended + n)

\* the ids among ids that the rows of a slice hold
IdsIn(rows) == {k \in 1..nappended : \E p \in 1..Len(rows) : rows[p] = Sample(k)}

\* RollingBuffer.append(chunk) for a chunk of n samples, lines 112-144
AppendChunk(n) ==
    /\ IF n = 0
         THEN UNCHANGED <<buffer, write_position, is_buffer_full,
                          total_samples_written>>
         ELSE IF n >= capacity
           THEN /\ buffer' = [i \in 0..(capacity - 1) |->
                                 Sample(nappended + n - capacity + 1 + i)]
                /\ write_position' = 0
                /\ is_buffer_full' = TRUE
                /\ total_samples_written' = NextTotal(n)
           ELSE LET end == write_position + n
                    slot(k) == WriteSlot(k)
                IN  /\ buffer' = [i \in 0..(capacity - 1) |->
                          IF \E k \in 0..(n - 1) : slot(k) = i
                            THEN Sample(nappended + 1
                                        + CHOOSE k \in 0..(n - 1) : slot(k) = i)
                            ELSE buffer[i]]
                    /\ write_position' = end % capacity
                    /\ is_buffer_full' = (is_buffer_full \/ end >= capacity)
                    /\ total_samples_written' = NextTotal(n)
    /\ nappended' = nappended + n
    /\ abs_log' = abs_log \o [j \in 1..n |->
                     [epoch |-> epoch, abs |-> absolute_end_index' - n + j - 1]]
    /\ rb_last' = [op |-> "append", n |-> n]
    /\ rb_out' = <<>>
    /\ UNCHANGED <<capacity, rb_shape, drained, epoch>>

\* a client appends a chunk of n samples
RbAppend(n) ==
    /\ RingOnly
    /\ nappended + n <= MaxSamples
    /\ AppendChunk(n)

\* RollingBuffer.clear(), lines 146-153
ClearBuffer ==
    /\ write_position' = 0
    /\ is_buffer_full' = FALSE
    /\ total_samples_written' = 0
    /\ drained' = drained \cup IdsIn(RbSlice(0, RbLen))
    /\ epoch' = epoch + 1
    /\ rb_last' = [op |-> "clear", n |-> 0]
    /\ rb_out' = <<>>
    /\ UNCHANGED <<capacity, rb_shape, buffer, nappended, abs_log>>

\* a client clears the buffer
RbClear ==
    /\ RingOnly
    /\ epoch < MaxClears
    /\ ClearBuffer

\* RollingBuffer.get_last_samples(n) and its alias get(n), lines 200-226
GetLastSamples(n) ==
    /\ LET total == RbLen
           m == Min2(n, total)
       IN  rb_out' = RbSlice(total - m, total)
    /\ drained' = drained \cup IdsIn(rb_out')
    /\ rb_last' = [op |-> "get", n |-> n]
    /\ UNCHANGED <<capacity, rb_shape, buffer, write_position, is_buffer_full,
                   total_samples_written, nappended, abs_log, epoch>>

\* a client reads the last n samples
RbGet(n) ==
    /\ RingOnly
    /\ GetLastSamples(n)

RingNext ==
    \/ \E n \in 0..MaxChunk : RbAppend(n)
    \/ RbClear
    \/ \E n \in 0..MaxCapacity : RbGet(n)

----------------------------------------------------------------------------
(* BatchedVideoReader (reader/batched_video_reader.py) *)

\* The wrapped reader yields the frames 1, 2, ..., total one by one. A row
\* of np.empty (line 45) that was never written holds Junk.
Junk == 0

\* rows lo..hi-1 of a batch buffer, as the batch handed to the consumer
BatchRows(buf, lo, hi) == [p \in 1..(hi - lo) |-> buf[lo + p - 1]]

\* no BatchedVideoReader is in use
BatIdle ==
    bat = [pc |-> "idle", batch_size |-> 1, total |-> 0, consumed |-> 0,
           batch_buffer |-> <<>>, count |-> 0, out |-> <<>>, error |-> None]

\* read_frames is called on a reader built with batch_size (lines 14-17)
\* that wraps a reader of total frames
BatInit ==
    \E b \in 1..MaxBatch, n \in 0..MaxInput :
        bat = [pc |-> "start", batch_size |-> b, total |-> n, consumed |-> 0,
               batch_buffer |-> <<>>, count |-> 0, out |-> <<>>, error |-> None]

\* lines 31-48: the first frame is taken; with none the generator returns;
\* otherwise the buffer of batch_size rows is allocated and the frame
\* written to row 0
BatFirst ==
    /\ BatOnly
    /\ bat.pc = "start"
    /\ IF bat.total = 0
         THEN bat' = [bat EXCEPT !.pc = "done"]
         ELSE bat' = [bat EXCEPT
                 !.batch_buffer = [i \in 0..(bat.batch_size - 1) |->
                                      IF i = 0 THEN 1 ELSE Junk],
                 !.count = 1, !.consumed = 1, !.pc = "loop"]

\* lines 50-57, one turn of the loop: the next frame is written to row
\* count, which raises IndexError when count is not a row of the buffer;
\* a full buffer is yielded (as a copy, or as it is at that moment) and
\* count set back to 0. When the wrapped reader is exhausted the loop ends.
BatLoop ==
    /\ BatOnly
    /\ bat.pc = "loop"
    /\ IF bat.consumed >= bat.total
         THEN bat' = [bat EXCEPT !.pc = "tail"]
         ELSE LET frame == bat.consumed + 1
                  written == [bat.batch_buffer EXCEPT ![bat.count] = frame]
              IN  IF bat.count >= bat.batch_size
                    THEN bat' = [bat EXCEPT !.pc = "raised",
                                            !.consumed = frame,
                                            !.error = "IndexError"]
                    ELSE IF bat.count + 1 = bat.batch_size
                      THEN bat' = [bat EXCEPT
                              !.batch_buffer = written, !.consumed = frame,
                              !.count = 0,
                              !.out = Append(@, BatchRows(written, 0, bat.batch_size))]
                      ELSE bat' = [bat EXCEPT
                              !.batch_buffer = written, !.consumed = frame,
                              !.count = bat.count + 1]

\* lines 59-61: the frames left in the buffer are yielded
BatTail ==
    /\ BatOnly
    /\ bat.pc = "tail"
    /\ bat' = [bat EXCEPT
          !.pc = "done",
          !.out = IF bat.count > 0
                    THEN Append(@, BatchRows(bat.batch_buffer, 0, bat.count))
                    ELSE @]

BatNext == BatFirst \/ BatLoop \/ BatTail

----------------------------------------------------------------------------
(* FfmpegIoVideoReader.read_frames (reader/ffmpegio_video_reader.py) *)

\* The decoder (ffmpegio.open, line 55) delivers its frames in blocks; the
\* sizes of the blocks to come are rd.blocks, and the frames are numbered
\* 1, 2, ... over all blocks: the k-th frame is Sample(k). rd.base is the
\* number of frames of the blocks before the current one.
RECURSIVE SumOf(_)
SumOf(sizes) == IF sizes = <<>> THEN 0 ELSE Head(sizes) + SumOf(Tail(sizes))

\* the sequences of up to MaxBlocks block sizes
BlockSequences ==
    UNION {[1..len -> 0..MaxChunk] : len \in 0..MaxBlocks}

\* no FfmpegIoVideoReader is in use
RdIdle ==
    rd = [pc |-> "idle", chunk_size |-> 1, blocks |-> <<>>, n_frames |-> 0,
          idx |-> 0, base |-> 0, made |-> FALSE, out |-> <<>>]

\* read_frames(chunk_size, pixel_format) is called, lines 47-57;
\* rolling_buffer is None
RdInit ==
    \E c \in 1..MaxCapacity, bs \in BlockSequences :
        rd = [pc |-> "for", chunk_size |-> c, blocks |-> bs, n_frames |-> 0,
              idx |-> 0, base |-> 0, made |-> FALSE, out |-> <<>>]

\* lines 58-61 and 69: the next block is taken from the decoder; an empty
\* one is skipped; when the decoder is exhausted the loop ends
RdNextBlock ==
    /\ RdOnly
    /\ rd.pc = "for"
    /\ IF rd.blocks = <<>>
         THEN rd' = [rd EXCEPT !.pc = "tail"]
         ELSE IF Head(rd.blocks) = 0
           THEN rd' = [rd EXCEPT !.blocks = Tail(@)]
           ELSE rd' = [rd EXCEPT !.blocks = Tail(@),
                                 !.n_frames = Head(rd.blocks),
                                 !.idx = 0,
                                 !.pc = IF rd.made THEN "while" ELSE "make"]
    /\ UNCHANGED ringVars

\* lines 64-65: RollingBuffer(chunk_size, ...) on the first block that
\* holds frames (rolling_buffer.py lines 94-110)
RdMakeBuffer ==
    /\ RdOnly
    /\ rd.pc = "make"
    /\ rd' = [rd EXCEPT !.made = TRUE, !.pc = "while"]
    /\ capacity' = rd.chunk_size
    /\ buffer' = [i \in 0..(rd.chunk_size - 1) |-> ZeroSample]
    /\ write_position' = 0
    /\ is_buffer_full' = FALSE
    /\ total_samples_written' = 0
    /\ UNCHANGED <<rb_shape, nappended, abs_log, drained, epoch, rb_last, rb_out>>

\* lines 72-73: the buffer is full and frames of the block are left:
\* rolling_buffer.get(copy=False) is yielded. The chunk is recorded as it
\* is when it is handed to the consumer.
RdYield ==
    /\ RdOnly
    /\ rd.pc = "while"
    /\ rd.idx < rd.n_frames
    /\ is_buffer_full
    /\ GetLastSamples(RbLen)
    /\ rd' = [rd EXCEPT !.out = Append(@, rb_out'), !.pc = "clear"]

\* line 74, when the consumer asks for the next chunk
RdClear ==
    /\ RdOnly
    /\ rd.pc = "clear"
    /\ ClearBuffer
    /\ rd' = [rd EXCEPT !.pc = "append"]

\* A mutant: the rest of the block is appended whatever the free space.
RdAppend_WholeRest ==
    /\ RdOnly
    /\ \/ rd.pc = "append"
       \/ rd.pc = "while" /\ rd.idx < rd.n_frames /\ ~is_buffer_full
    /\ LET to_add == rd.n_frames - rd.idx
       IN  /\ AppendChunk(to_add)
           /\ rd' = [rd EXCEPT !.idx = @ + to_add, !.pc = "while"]

\* lines 77-79: to_add = min(free, n_frames - idx) frames of the block,
\* from idx on, are appended
RdAppend ==
    /\ RdOnly
    /\ \/ rd.pc = "append"
       \/ rd.pc = "while" /\ rd.idx < rd.n_frames /\ ~is_buffer_full
    /\ LET to_add == Min2(RbFree, rd.n_frames - rd.idx)
       IN  /\ AppendChunk(to_add)
           /\ rd' = [rd EXCEPT !.idx = @ + to_add, !.pc = "while"]

\* line 70: the block is used up
RdBlockDone ==
    /\ RdOnly
    /\ rd.pc = "while"
    /\ rd.idx >= rd.n_frames
    /\ rd' = [rd EXCEPT !.pc = "for", !.base = @ + rd.n_frames]
    /\ UNCHANGED ringVars

\* lines 82-83: what is left in the buffer is yielded
RdTail ==
    /\ RdOnly
    /\ rd.pc = "tail"
    /\ IF rd.made /\ RbLen # 0
         THEN /\ GetLastSamples(RbLen)
              /\ rd' = [rd EXCEPT !.out = Append(@, rb_out'), !.pc = "done"]
         ELSE /\ rd' = [rd EXCEPT !.pc = "done"]
              /\ UNCHANGED ringVars

RdNext ==
    \/ RdNextBlock
    \/ RdMakeBuffer
    \/ RdYield
    \/ RdClear
    \/ RdAppend
    \/ RdBlockDone
    \/ RdTail

----------------------------------------------------------------------------
(* SharpFrameExtractor._analyze_frames: the analysis pass of one task *)

\* the score the scorer gives the frame with global index g: one score per
\* frame of a block (the scorer is not part of the sources; its contract is
\* the specification's)
FrameScore(g) == 100 + g

\* what a scoring task delivers for block b of a video of total frames in
\* blocks of size frames: block_index and the scores of its frames, in order
BlockResult(b, total, size) ==
    LET first == b * size
        len == Min2(size, total - first)
    IN  [block_index |-> b, scores |-> [p \in 1..len |-> FrameScore(first + p - 1)]]

\* Future.clear(), called at line 201, is not part of the sources: it leaves
\* the recorded results alone
FutureClear(f) == [f EXCEPT !.cleared = TRUE]

\* line 204: analysis_results.sort(key=lambda e: e.block_index), stable
SortByBlockIndex(rs) ==
    LET idx == 1..Len(rs)
        Rank(i) == Cardinality({h \in idx :
                      \/ rs[h].block_index < rs[i].block_index
                      \/ (rs[h].block_index = rs[i].block_index /\ h < i)})
    IN  [p \in idx |-> rs[CHOOSE i \in idx : Rank(i) = p - 1]]

\* line 205: list(chain.from_iterable(r.scores for r in analysis_rs))
RECURSIVE ChainScores(_)
ChainScores(rs) ==
    IF rs = <<>> THEN <<>>
    ELSE Head(rs).scores \o ChainScores(Tail(rs))

\* an event as the observers receive it; block is the block_index of a
\* BlockAnalyzed event and 0 otherwise
Event(type, block) == [type |-> type, block |-> block]

\* the Future that BaseWorker.submit_task returns for block b whose frames
\* lie in segment ref (Future.__init__, lines 17-23), and what the model
\* records about it; worker_alive tells whether the worker process that got
\* the task is still running
NewFuture(b, ref) ==
    [block_index |-> b, ref |-> ref, state |-> "pending", registered |-> FALSE,
     worker_released |-> FALSE, callbacks_done |-> FALSE, released |-> FALSE,
     cleared |-> FALSE, worker_alive |-> TRUE]

\* the listener thread is inside set_result or set_exception and holds the
\* future's _lock, Future.py lines 34-49
LockHeld(f) == f.state # "pending" /\ ~f.callbacks_done

\* Leaving the with block of line 157 calls the store's __exit__, which is
\* not part of the sources: it tears the store down with release_all
\* (shared_ndarray_pool.py lines 65-75), which empties _active and _pool
ActiveAfterExit == {}
PoolAfterExit == <<>>

\* no analysis pass is running
AnIdle ==
    /\ video_frames = 0
    /\ stream_block_size = 1
    /\ apc = "idle"
    /\ block_index = 0
    /\ submitted_tasks = <<>>
    /\ analysis_results = <<>>
    /\ store_active = {}
    /\ idle_workers = 0
    /\ wait_index = 0
    /\ analysis_scores = <<>>
    /\ store_pool = <<>>
    /\ store_created = 0
    /\ shared_memory_ref = 0
    /\ events = <<>>
    /\ extract_left = 0

\* _process_extraction_task is entered for a video of any length up to
\* MaxVideoFrames and any block size; the pool is idle
AnInit ==
    /\ video_frames \in 0..MaxVideoFrames
    /\ stream_block_size \in 1..MaxBlockSize
    /\ apc = "start"
    /\ block_index = 0
    /\ submitted_tasks = <<>>
    /\ analysis_results = <<>>
    /\ store_active = {}
    /\ idle_workers = max_workers
    /\ wait_index = 0
    /\ analysis_scores = <<>>
    /\ store_pool = <<>>
    /\ store_created = 0
    /\ shared_memory_ref = 0
    /\ events = <<>>
    /\ extract_left = 0

\* line 108: on_task_event(TaskStartedEvent(task))
AnTaskStarted ==
    /\ AnOnly
    /\ apc = "start"
    /\ events' = Append(events, Event("Started", 0))
    /\ apc' = "prepare"
    /\ UNCHANGED <<video_frames, stream_block_size, block_index,
                   submitted_tasks, analysis_results, store_active,
                   idle_workers, wait_index, analysis_scores, store_pool,
                   store_created, shared_memory_ref, extract_left>>

\* lines 151-157: on_task_event(TaskPreparedEvent(...)), then the task's
\* store is built, empty, and _analyze_frames is entered
AnTaskPrepared ==
    /\ AnOnly
    /\ apc = "prepare"
    /\ events' = Append(events, Event("Prepared", 0))
    /\ apc' = "decode"
    /\ UNCHANGED <<video_frames, stream_block_size, block_index,
                   submitted_tasks, analysis_results, store_active,
                   idle_workers, wait_index, analysis_scores, store_pool,
                   store_created, shared_memory_ref, extract_left>>

\* lines 176-179: the decoder yields the next block, or the stream ends
AnDecode ==
    /\ AnOnly
    /\ apc = "decode"
    /\ apc' = IF block_index * stream_block_size < video_frames
                THEN "put" ELSE "wait"
    /\ wait_index' = 1
    /\ UNCHANGED <<video_frames, stream_block_size, block_index,
                   submitted_tasks, analysis_results, store_active,
                   idle_workers, analysis_scores, store_pool, store_created,
                   shared_memory_ref, events, extract_left>>

\* lines 176-179: the decoder raises instead of yielding the next block (a
\* truncated or unreadable file); the exception leaves _analyze_frames and
\* the with block of line 157, whose store is torn down
AnDecodeError ==
    /\ AnOnly
    /\ apc = "decode"
    /\ apc' = "raised"
    /\ store_active' = ActiveAfterExit
    /\ store_pool' = PoolAfterExit
    /\ UNCHANGED <<video_frames, stream_block_size, block_index,
                   submitted_tasks, analysis_results, idle_workers,
                   wait_index, analysis_scores, store_created,
                   shared_memory_ref, events, extract_left>>

\* A mutant: the segment taken stays in the free list.
AnPut_KeepsInPool ==
    /\ AnOnly
    /\ apc = "put"
    /\ Cardinality(store_active) < max_workers
    /\ IF store_pool # <<>>
         THEN /\ shared_memory_ref' = store_pool[Len(store_pool)]
              /\ UNCHANGED <<store_pool, store_created>>
         ELSE /\ shared_memory_ref' = store_created + 1
              /\ store_created' = store_created + 1
              /\ UNCHANGED store_pool
    /\ store_active' = store_active \cup {shared_memory_ref'}
    /\ apc' = "submit"
    /\ UNCHANGED <<video_frames, stream_block_size, block_index,
                   submitted_tasks, analysis_results, idle_workers,
                   wait_index, analysis_scores, events, extract_left>>

\* line 181, store.put (shared_ndarray_pool.py lines 27-54): blocks on the
\* semaphore while n_buffers (= max_workers, line 157) segments are active,
\* then pops the last free segment or creates one and enters it in _active.
\* One thread calls put on the task's store and release signals the
\* semaphore under the lock that removes the segment from _active, so the
\* semaphore's value is n_buffers less the number of active segments.
AnPut ==
    /\ AnOnly
    /\ apc = "put"
    /\ Cardinality(store_active) < max_workers
    /\ IF store_pool # <<>>
         THEN /\ shared_memory_ref' = store_pool[Len(store_pool)]
              /\ store_pool' = SubSeq(store_pool, 1, Len(store_pool) - 1)
              /\ UNCHANGED store_created
         ELSE /\ shared_memory_ref' = store_created + 1
              /\ store_created' = store_created + 1
              /\ UNCHANGED store_pool
    /\ store_active' = store_active \cup {shared_memory_ref'}
    /\ apc' = "submit"
    /\ UNCHANGED <<video_frames, stream_block_size, block_index,
                   submitted_tasks, analysis_results, idle_workers,
                   wait_index, analysis_scores, events, extract_left>>

\* line 184, FrameAnalyzerWorkerPool.submit_task: blocks until a worker is
\* idle, then returns a pending future that releases the worker when it
\* resolves
AnSubmit ==
    /\ AnOnly
    /\ apc = "submit"
    /\ idle_workers > 0
    /\ idle_workers' = idle_workers - 1
    /\ submitted_tasks' = Append(submitted_tasks,
                                 NewFuture(block_index, shared_memory_ref))
    /\ apc' = "callback"
    /\ UNCHANGED <<video_frames, stream_block_size, block_index,
                   analysis_results, store_active, wait_index, analysis_scores,
                   store_pool, store_created, shared_memory_ref, events,
                   extract_left>>

\* store.release(ref), shared_ndarray_pool.py lines 56-63: a segment that is
\* active goes back to the free list, any other ref is ignored
ActiveAfterRelease(ref) == store_active \ {ref}
PoolAfterRelease(ref) ==
    IF ref \in store_active THEN Append(store_pool, ref) ELSE store_pool

\* _on_block_finished for the resolved future k, lines 210-226, after
\* future.result() has returned: the result is recorded, the buffer released
\* and BlockAnalyzedEvent emitted
OnBlockFinished(k) ==
    LET f == submitted_tasks[k]
    IN  /\ analysis_results' = Append(analysis_results,
              BlockResult(f.block_index, video_frames, stream_block_size))
        /\ store_active' = ActiveAfterRelease(f.ref)
        /\ store_pool' = PoolAfterRelease(f.ref)
        /\ events' = Append(events, Event("BlockAnalyzed", f.block_index))

\* lines 185-196: add_done_callback(_on_block_finished) takes the future's
\* lock. On a future that is already resolved the callback runs at once on
\* this thread: it records the result and releases the buffer, or
\* future.result() raises and the exception leaves _analyze_frames and the
\* with block of line 157, whose store is torn down (release_all, lines
\* 65-75). Otherwise the callback is registered.
AnCallback ==
    /\ AnOnly
    /\ apc = "callback"
    /\ LET k == Len(submitted_tasks)
           f == submitted_tasks[k]
       IN  /\ ~LockHeld(f)
           /\ CASE f.state = "pending" ->
                  /\ submitted_tasks' = [submitted_tasks EXCEPT ![k].registered = TRUE]
                  /\ block_index' = block_index + 1
                  /\ apc' = "decode"
                  /\ UNCHANGED <<analysis_results, store_active, store_pool, events>>
             [] f.state = "ok" ->
                  /\ OnBlockFinished(k)
                  /\ submitted_tasks' = [submitted_tasks EXCEPT ![k].released = TRUE]
                  /\ block_index' = block_index + 1
                  /\ apc' = "decode"
             [] f.state = "failed" ->
                  /\ apc' = "raised"
                  /\ store_active' = ActiveAfterExit
                  /\ store_pool' = PoolAfterExit
                  /\ UNCHANGED <<submitted_tasks, analysis_results,
                                 block_index, events>>
    /\ UNCHANGED <<video_frames, stream_block_size, idle_workers, wait_index,
                   analysis_scores, store_created, shared_memory_ref,
                   extract_left>>

\* The worker process of submitted task k ends inside handle_task without
\* reaching either results.put of BaseWorker._run_loop (lines 52-56): it is
\* killed, or handle_task ends it with something that is not an Exception.
\* Nothing of the parent process changes; its listener thread stays in
\* results.get() (line 79).
AnWorkerCrash(k) ==
    /\ AnOnly
    /\ k \in 1..Len(submitted_tasks)
    /\ submitted_tasks[k].state = "pending"
    /\ submitted_tasks[k].worker_alive
    /\ submitted_tasks' = [submitted_tasks EXCEPT ![k].worker_alive = FALSE]
    /\ UNCHANGED <<video_frames, stream_block_size, apc, block_index,
                   analysis_results, store_active, idle_workers, wait_index,
                   analysis_scores, store_pool, store_created,
                   shared_memory_ref, events, extract_left>>

\* A mutant: a result arrives for a task whose worker process has ended.
AnResolve_FromDeadWorker(k, outcome) ==
    /\ AnOnly
    /\ k \in 1..Len(submitted_tasks)
    /\ submitted_tasks[k].state = "pending"
    /\ submitted_tasks' = [submitted_tasks EXCEPT ![k].state = outcome]
    /\ UNCHANGED <<video_frames, stream_block_size, apc, block_index,
                   analysis_results, store_active, idle_workers, wait_index,
                   analysis_scores, store_pool, store_created,
                   shared_memory_ref, events, extract_left>>

\* The scoring of submitted task k ends with outcome: the worker process
\* puts the result or the exception on its results queue (BaseWorker.py
\* lines 52-56) and the listener thread (_result_listener, lines 78-89)
\* calls set_result or set_exception, which takes the future's lock and
\* sets _done (Future.py lines 34-36, 43-45)
AnResolve(k, outcome) ==
    /\ AnOnly
    /\ k \in 1..Len(submitted_tasks)
    /\ submitted_tasks[k].state = "pending"
    /\ submitted_tasks[k].worker_alive
    /\ submitted_tasks' = [submitted_tasks EXCEPT ![k].state = outcome]
    /\ UNCHANGED <<video_frames, stream_block_size, apc, block_index,
                   analysis_results, store_active, idle_workers, wait_index,
                   analysis_scores, store_pool, store_created,
                   shared_memory_ref, events, extract_left>>

\* Future.py lines 37-40 and 46-49, frame_analyzer_pool.py line 41: the first
\* callback of the resolved future releases the worker; when no other
\* callback is registered _callbacks_done is set and the lock released
AnReleaseWorker(k) ==
    /\ AnOnly
    /\ k \in 1..Len(submitted_tasks)
    /\ submitted_tasks[k].state # "pending"
    /\ ~submitted_tasks[k].worker_released
    /\ idle_workers' = idle_workers + 1
    /\ submitted_tasks' = [submitted_tasks EXCEPT
          ![k].worker_released = TRUE,
          ![k].callbacks_done = ~submitted_tasks[k].registered]
    /\ UNCHANGED <<video_frames, stream_block_size, apc, block_index,
                   analysis_results, store_active, wait_index,
                   analysis_scores, store_pool, store_created,
                   shared_memory_ref, events, extract_left>>

\* Future._invoke_callbacks, lines 25-31, runs the registered
\* _on_block_finished (lines 210-226) on the listener thread: a result is
\* recorded, its buffer released and BlockAnalyzed emitted; for a failure
\* future.result() raises at line 219 and the exception is logged and
\* dropped. Then _callbacks_done is set and the lock released.
AnBlockFinished(k) ==
    /\ AnOnly
    /\ k \in 1..Len(submitted_tasks)
    /\ submitted_tasks[k].worker_released
    /\ submitted_tasks[k].registered
    /\ ~submitted_tasks[k].callbacks_done
    /\ IF submitted_tasks[k].state = "ok"
         THEN /\ OnBlockFinished(k)
              /\ submitted_tasks' = [submitted_tasks EXCEPT
                    ![k].callbacks_done = TRUE, ![k].released = TRUE]
         ELSE /\ submitted_tasks' = [submitted_tasks EXCEPT
                    ![k].callbacks_done = TRUE]
              /\ UNCHANGED <<analysis_results, store_active, store_pool, events>>
    /\ UNCHANGED <<video_frames, stream_block_size, apc, block_index,
                   idle_workers, wait_index, analysis_scores, store_created,
                   shared_memory_ref, extract_left>>

\* A mutant: wait() returns as soon as the future is resolved.
AnWait_DoneOnly ==
    /\ AnOnly
    /\ apc = "wait"
    /\ wait_index <= Len(submitted_tasks)
    /\ submitted_tasks[wait_index].state # "pending"
    /\ submitted_tasks' = [submitted_tasks EXCEPT
                              ![wait_index] = FutureClear(submitted_tasks[wait_index])]
    /\ wait_index' = wait_index + 1
    /\ UNCHANGED <<video_frames, stream_block_size, apc, block_index,
                   analysis_results, store_active, idle_workers,
                   analysis_scores, store_pool, store_created,
                   shared_memory_ref, events, extract_left>>

\* lines 199-201: wait() returns once the future is resolved and its
\* callbacks have run (Future.py lines 74-81); then clear()
AnWait ==
    /\ AnOnly
    /\ apc = "wait"
    /\ wait_index <= Len(submitted_tasks)
    /\ submitted_tasks[wait_index].state # "pending"
    /\ submitted_tasks[wait_index].callbacks_done
    /\ submitted_tasks' = [submitted_tasks EXCEPT
                              ![wait_index] = FutureClear(submitted_tasks[wait_index])]
    /\ wait_index' = wait_index + 1
    /\ UNCHANGED <<video_frames, stream_block_size, apc, block_index,
                   analysis_results, store_active, idle_workers,
                   analysis_scores, store_pool, store_created,
                   shared_memory_ref, events, extract_left>>

\* lines 203-206: the results sorted by block_index, their scores chained
\* and handed to the reduction with the task's frame_interval fi, which
\* selects one frame per interval
AnSort(fi) ==
    /\ AnOnly
    /\ apc = "wait"
    /\ wait_index > Len(submitted_tasks)
    /\ analysis_results' = SortByBlockIndex(analysis_results)
    /\ analysis_scores' = ChainScores(analysis_results')
    /\ extract_left' = IF analysis_scores' = <<>> THEN 0
                       ELSE NumIntervals(Len(analysis_scores'), fi)
    /\ apc' = "reduce"
    /\ UNCHANGED <<video_frames, stream_block_size, block_index,
                   submitted_tasks, store_active, idle_workers, wait_index,
                   store_pool, store_created, shared_memory_ref, events>>

\* lines 159-160: _analyze_frames has returned; TaskAnalyzedEvent is emitted
\* and the with block of line 157 is left, which tears the store down
\* (release_all, shared_ndarray_pool.py lines 65-75)
AnTaskAnalyzed ==
    /\ AnOnly
    /\ apc = "reduce"
    /\ events' = Append(events, Event("Analyzed", 0))
    /\ store_active' = ActiveAfterExit
    /\ store_pool' = PoolAfterExit
    /\ apc' = "extract"
    /\ UNCHANGED <<video_frames, stream_block_size, block_index,
                   submitted_tasks, analysis_results, idle_workers,
                   wait_index, analysis_scores, store_created,
                   shared_memory_ref, extract_left>>

\* line 163, _extract_frames lines 263-277: the next selected frame is handed
\* to the handlers and BlockFrameExtracted is emitted
AnFrameExtracted ==
    /\ AnOnly
    /\ apc = "extract"
    /\ extract_left > 0
    /\ events' = Append(events, Event("BlockExtracted", 0))
    /\ extract_left' = extract_left - 1
    /\ UNCHANGED <<video_frames, stream_block_size, apc, block_index,
                   submitted_tasks, analysis_results, store_active,
                   idle_workers, wait_index, analysis_scores, store_pool,
                   store_created, shared_memory_ref>>

\* line 165: the extraction pass has returned, TaskFinishedEvent is emitted
AnTaskFinished ==
    /\ AnOnly
    /\ apc = "extract"
    /\ extract_left = 0
    /\ events' = Append(events, Event("Finished", 0))
    /\ apc' = "finished"
    /\ UNCHANGED <<video_frames, stream_block_size, block_index,
                   submitted_tasks, analysis_results, store_active,
                   idle_workers, wait_index, analysis_scores, store_pool,
                   store_created, shared_memory_ref, extract_left>>

\* what a scoring task can end with
Outcomes == {"ok", "failed"}

AnNext ==
    \/ AnTaskStarted
    \/ AnTaskPrepared
    \/ AnDecode
    \/ AnDecodeError
    \/ AnPut
    \/ AnSubmit
    \/ AnCallback
    \/ \E k \in 1..MaxVideoFrames, outcome \in Outcomes : AnResolve(k, outcome)
    \/ \E k \in 1..MaxVideoFrames : AnReleaseWorker(k)
    \/ \E k \in 1..MaxVideoFrames : AnBlockFinished(k)
    \/ AnWait
    \/ \E fi \in 1..MaxInterval : AnSort(fi)
    \/ AnTaskAnalyzed
    \/ AnFrameExtracted
    \/ AnTaskFinished

\* the analysis pass with worker processes that can end at any moment
AnCrashNext ==
    \/ AnNext
    \/ \E k \in 1..MaxVideoFrames : AnWorkerCrash(k)

----------------------------------------------------------------------------
(* SharpFrameExtractor.process and _process_extraction_task *)

\* an option of ExtractionOptions that is None
Unset == [set |-> FALSE, value |-> 0]

\* an option that is given
Given(v) == [set |-> TRUE, value |-> v]

\* frame_interval_seconds in half seconds: None, -1 s, 0 s, 0.5 s, 1 s,
\* 1.5 s, 2.5 s
IntervalOptions == {Unset, Given(-2), Given(0), Given(1), Given(2), Given(3),
                    Given(5)}

\* total_frame_count: None, -1, 0, 2
CountOptions == {Unset, Given(-1), Given(0), Given(2)}

\* every ExtractionOptions(frame_interval_seconds, total_frame_count) of the
\* dataclass, lines 41-53 of models.py
AllOptions == [every2 : IntervalOptions, count : CountOptions]

\* ExtractionOptions.from_interval(1.5) and ExtractionOptions.from_count(2),
\* and one that sets neither
NamedOptions == {[every2 |-> Given(3), count |-> Unset],
                 [every2 |-> Unset, count |-> Given(2)],
                 [every2 |-> Unset, count |-> Unset]}

\* the videos the probe reports, as <<frame rate, frame count>>
ProbedVideos == {<<1, 3>>, <<2, 3>>, <<10, 100>>}

\* A mutant: a half is rounded up.
RoundHalves_HalfUp(x2) == (x2 + 1) \div 2

\* int(round(x)) for x given in halves: Python rounds a half to the even
\* neighbour
RoundHalves(x2) ==
    IF x2 % 2 = 0 THEN x2 \div 2
    ELSE LET lo == (x2 - 1) \div 2
         IN  IF lo % 2 = 0 THEN lo ELSE lo + 1

\* A mutant: the quotient is rounded down.
CeilOfQuotient_Floor(a, b) == a \div b

\* int(math.ceil(a / b)) for a >= 0 and b # 0
CeilOfQuotient(a, b) ==
    IF b > 0 THEN (a + b - 1) \div b ELSE 0 - (a \div (0 - b))

\* lines 129-135: the frame interval of a task, or the exception raised
FrameInterval(options, fps, total_video_frames) ==
    IF options.every2.set
      THEN [error |-> "none",
            value |-> Max2(1, RoundHalves(options.every2.value * fps))]
    ELSE IF options.count.set
      THEN IF options.count.value = 0
             THEN [error |-> "ZeroDivisionError", value |-> 0]
             ELSE [error |-> "none",
                   value |-> Max2(1, CeilOfQuotient(total_video_frames,
                                                    options.count.value))]
    ELSE [error |-> "ValueError", value |-> 0]

\* a task that process() has not touched
NewJob == [pc |-> "queued", frame_interval |-> 0, error |-> "none",
           decoded |-> FALSE, collected |-> FALSE,
           video_fps |-> 0, total_video_frames |-> 0, total_frames |-> 0]

\* the task lists of n tasks: ids 1..n in any order, options from opts
TaskLists(n, opts) ==
    {t \in [1..n -> [task_id : 1..n, options : opts]] :
        \A i, j \in 1..n : i # j => t[i].task_id # t[j].task_id}

\* process() is not running
ProcIdle ==
    /\ tasks = <<>>
    /\ max_video_jobs = 1
    /\ proc_pc = "idle"
    /\ jobs = <<>>
    /\ results = <<>>
    /\ proc_error = "none"

\* process(tasks) is called
ProcCalled(n, opts) ==
    /\ tasks \in TaskLists(n, opts)
    /\ max_video_jobs \in 1..MaxJobs
    /\ proc_pc = "call"
    /\ jobs = [i \in 1..Len(tasks) |-> NewJob]
    /\ results = <<>>
    /\ proc_error = "none"

\* jobs that a thread of the executor is running
Running == {i \in DOMAIN jobs : jobs[i].pc \in {"started", "configured", "decoding"}}

\* lines 73-88: the sequential loop is entered, or every task is handed to
\* the executor
ProcCall ==
    /\ ProcOnly
    /\ proc_pc = "call"
    /\ proc_pc' = IF max_video_jobs <= 1 THEN "seq" ELSE "par"
    /\ UNCHANGED <<tasks, max_video_jobs, jobs, results, proc_error>>

\* line 78 or line 87: _process_extraction_task(task) starts, in the caller's
\* thread for the first task not yet run, or on a free thread of the executor
\* for the task at the head of its queue; lines 107-127 probe the video
TaskStart(i) ==
    /\ ProcOnly
    /\ i \in DOMAIN jobs
    /\ jobs[i].pc = "queued"
    /\ \A h \in 1..(i - 1) : jobs[h].pc # "queued"
    /\ \/ proc_pc = "seq" /\ Running = {}
       \/ proc_pc \in {"par", "exiting"} /\ Cardinality(Running) < max_video_jobs
    /\ jobs' = [jobs EXCEPT ![i].pc = "started"]
    /\ UNCHANGED <<tasks, max_video_jobs, proc_pc, results, proc_error>>

\* lines 118-138: the probe reports fps and the frame count; the frame
\* interval and the number of frames to extract are computed, or the exception leaves
\* _process_extraction_task; in the sequential loop it leaves process() too
TaskConfig(i, fps, total_video_frames) ==
    /\ ProcOnly
    /\ i \in DOMAIN jobs
    /\ jobs[i].pc = "started"
    /\ LET fi == FrameInterval(tasks[i].options, fps, total_video_frames)
       IN  IF fi.error = "none"
             THEN /\ jobs' = [jobs EXCEPT
                        ![i].pc = "configured",
                        ![i].frame_interval = fi.value,
                        ![i].video_fps = fps,
                        ![i].total_video_frames = total_video_frames,
                        ![i].total_frames =
                            CeilOfQuotient(total_video_frames, fi.value)]
                  /\ UNCHANGED <<proc_pc, proc_error>>
             ELSE /\ jobs' = [jobs EXCEPT ![i].pc = "raised",
                                          ![i].error = fi.error,
                                          ![i].collected = (proc_pc = "seq")]
                  /\ IF proc_pc = "seq"
                       THEN proc_pc' = "raised" /\ proc_error' = fi.error
                       ELSE UNCHANGED <<proc_pc, proc_error>>
    /\ UNCHANGED <<tasks, max_video_jobs, results>>

\* lines 140-163: the analysis pass and the extraction pass decode the video
TaskAnalyze(i) ==
    /\ ProcOnly
    /\ i \in DOMAIN jobs
    /\ jobs[i].pc = "configured"
    /\ jobs' = [jobs EXCEPT ![i].pc = "decoding", ![i].decoded = TRUE]
    /\ UNCHANGED <<tasks, max_video_jobs, proc_pc, results, proc_error>>

\* the scores the analysis pass can deliver for a video of n frames: all
\* equal, or rising and falling with period 7 in steps of m
ScorePatterns == {0, 3}
PatternScores(n, m) == [p \in 1..n |-> ((p - 1) * m) % 7]

\* lines 159 and 206: the analysis pass of task i has scored the frames of
\* the video, one score per frame, and calls the reduction with them and
\* with the task's frame_interval
TaskReduce(i, m) ==
    /\ i \in DOMAIN jobs
    /\ jobs[i].pc = "decoding"
    /\ rpc = "idle"
    /\ raw_frame_scores' = PatternScores(jobs[i].total_video_frames, m)
    /\ frame_interval' = jobs[i].frame_interval
    /\ rpc' = "call"
    /\ UNCHANGED <<scores, frame_index, best_frame_index, best_score, selection>>
    /\ UNCHANGED <<storeVars, futVars, poolVars, ringVars, anVars, procVars,
                   extVars, idVars, sizeVars, readVars>>

\* line 114 or lines 176-179 and 242-248: probing the video or decoding it
\* raises (an unreadable or truncated file), not while the task is inside the
\* reduction; the exception leaves _process_extraction_task, and in the
\* sequential loop process() too
TaskFail(i) ==
    /\ ProcOnly
    /\ i \in DOMAIN jobs
    /\ jobs[i].pc \in {"started", "decoding"}
    /\ rpc \in {"idle", "done"}
    /\ jobs' = [jobs EXCEPT ![i].pc = "raised",
                            ![i].error = "DecodeError",
                            ![i].collected = (proc_pc = "seq")]
    /\ IF proc_pc = "seq"
         THEN proc_pc' = "raised" /\ proc_error' = "DecodeError"
         ELSE UNCHANGED <<proc_pc, proc_error>>
    /\ UNCHANGED <<tasks, max_video_jobs, results>>

\* lines 165-166: the task, back from the reduction if it called it, returns
\* ExtractionResult(task_id); the sequential loop appends it at once (lines
\* 78-79)
TaskFinish(i) ==
    /\ ProcOnly
    /\ i \in DOMAIN jobs
    /\ jobs[i].pc = "decoding"
    /\ rpc \in {"idle", "done"}
    /\ jobs' = [jobs EXCEPT ![i].pc = "finished",
                            ![i].collected = (proc_pc = "seq")]
    /\ results' = IF proc_pc = "seq" THEN Append(results, tasks[i].task_id)
                  ELSE results
    /\ UNCHANGED <<tasks, max_video_jobs, proc_pc, proc_error>>

\* lines 91-94: as_completed yields a completed future; future.result()
\* returns the task's result, which is appended, or raises the task's
\* exception, which leaves the with block
ProcCollect(i) ==
    /\ ProcOnly
    /\ proc_pc = "par"
    /\ i \in DOMAIN jobs
    /\ jobs[i].pc \in {"finished", "raised"}
    /\ ~jobs[i].collected
    /\ jobs' = [jobs EXCEPT ![i].collected = TRUE]
    /\ IF jobs[i].pc = "finished"
         THEN /\ results' = Append(results, tasks[i].task_id)
              /\ UNCHANGED <<proc_pc, proc_error>>
         ELSE /\ proc_pc' = "exiting"
              /\ proc_error' = jobs[i].error
              /\ UNCHANGED results
    /\ UNCHANGED <<tasks, max_video_jobs>>

\* line 83: leaving the with block waits for every task handed to the
\* executor; then the exception reaches the caller
ProcExit ==
    /\ ProcOnly
    /\ proc_pc = "exiting"
    /\ \A i \in DOMAIN jobs : jobs[i].pc \in {"finished", "raised"}
    /\ proc_pc' = "raised"
    /\ UNCHANGED <<tasks, max_video_jobs, jobs, results, proc_error>>

\* results.sort(key=lambda r: r.task_id), line 97
SortByTaskId(ids) ==
    LET idx == 1..Len(ids)
        Rank(i) == Cardinality({h \in idx : ids[h] < ids[i]
                                            \/ (ids[h] = ids[i] /\ h < i)})
    IN  [p \in idx |-> ids[CHOOSE i \in idx : Rank(i) = p - 1]]

\* line 80: the sequential loop returns the results as appended;
\* lines 96-99: the executor's results are sorted by task_id and returned
ProcReturn ==
    /\ ProcOnly
    /\ proc_pc \in {"seq", "par"}
    /\ \A i \in DOMAIN jobs : jobs[i].collected
    /\ results' = IF proc_pc = "seq" THEN results ELSE SortByTaskId(results)
    /\ proc_pc' = "returned"
    /\ UNCHANGED <<tasks, max_video_jobs, jobs, proc_error>>

\* ExtractionOptions.from_count(k) for 1 <= k <= MaxCount
CountModeOptions ==
    {[every2 |-> Unset, count |-> Given(k)] : k \in 1..MaxCount}

\* one task in count mode, from the call of process() to its result: the
\* probe reports any frame count up to MaxTotalFrames, the analysis pass
\* scores every frame and the reduction selects
CountNext ==
    \/ ProcCall
    \/ TaskStart(1)
    \/ \E n \in 0..MaxTotalFrames : TaskConfig(1, 1, n)
    \/ TaskAnalyze(1)
    \/ \E m \in ScorePatterns : TaskReduce(1, m)
    \/ RedEmpty
    \/ RedSetup
    \/ RedLoop
    \/ RedReturn
    \/ TaskFinish(1)

ProcNext ==
    \/ ProcCall
    \/ \E i \in 1..MaxTasks : TaskStart(i)
    \/ \E i \in 1..MaxTasks, v \in ProbedVideos : TaskConfig(i, v[1], v[2])
    \/ \E i \in 1..MaxTasks : TaskAnalyze(i)
    \/ \E i \in 1..MaxTasks : TaskFail(i)
    \/ \E i \in 1..MaxTasks : TaskFinish(i)
    \/ \E i \in 1..MaxTasks : ProcCollect(i)
    \/ ProcExit
    \/ ProcReturn

----------------------------------------------------------------------------
(* SharpFrameExtractor._extract_frames: the extraction pass of one task *)

\* self._output_handlers
Handlers == {"h1", "h2"}

\* scores of the frames of a video that goes through both passes
ExtScoreValues == {0, 1}

\* A mutant: side="right".
SearchSorted_Right(arr, v) == Cardinality({p \in DOMAIN arr : arr[p] <= v})

\* np.searchsorted(arr, v, side="left") on an ascending array: the number of
\* elements below v (lines 255-256); positions count from 0
SearchSorted(arr, v) == Cardinality({p \in DOMAIN arr : arr[p] < v})

\* A mutant: the hits of a block are walked from the last to the first.
HitRange_Reversed(i0, i1) == [p \in 1..(i1 - i0) |-> i1 - p]

\* range(i0, i1), line 264
HitRange(i0, i1) == [p \in 1..(i1 - i0) |-> i0 + p - 1]

\* frames[local_idx] of the block that starts at global frame start: the
\* frame of the video it is (line 269)
FrameAt(start, local_idx) == start + local_idx

\* lines 264-275 for one handler: the VideoFrameInfo of every hit, in the
\* order of the loop; positions k count from 0 as in the arrays
FrameInfos(hits, start) ==
    [p \in 1..Len(hits) |->
        LET k == hits[p]
            frame_id == selection.frame_index[k + 1]
        IN  [interval_index |-> selection.interval_index[k + 1],
             frame_index |-> frame_id,
             score |-> selection.score[k + 1],
             frame |-> FrameAt(start, frame_id - start)]]

\* no extraction pass is running
ExtIdle ==
    /\ ext_block_size = 1
    /\ epc = "idle"
    /\ global_start = 0
    /\ handed = [h \in Handlers |-> <<>>]

\* a task with a video of up to MaxFrames frames enters the reduction, to be
\* followed by the extraction pass in blocks of any size
ExtInit ==
    /\ raw_frame_scores \in UNION {[1..n -> ExtScoreValues] : n \in 0..MaxFrames}
    /\ frame_interval \in 0..MaxInterval
    /\ rpc = "call"
    /\ scores = <<>>
    /\ frame_index = 0
    /\ best_frame_index = <<>>
    /\ best_score = <<>>
    /\ selection = EmptySelection
    /\ ext_block_size \in 1..MaxBlockSize
    /\ epc = "call"
    /\ global_start = 0
    /\ handed = [h \in Handlers |-> <<>>]

\* lines 236-247: every handler prepares the task and the video is opened
\* again
ExtPrepare ==
    /\ ExtOnly
    /\ rpc = "done"
    /\ epc = "call"
    /\ global_start' = 0
    /\ epc' = "loop"
    /\ UNCHANGED <<ext_block_size, handed>>

\* lines 248-282: one block of the second decode, which yields the frames of
\* the analysis pass again: the selected frames that fall into the block are
\* handed to every handler; the loop ends after the last selected frame
ExtBlock ==
    /\ ExtOnly
    /\ epc = "loop"
    /\ global_start < Len(raw_frame_scores)
    /\ LET block_len == Min2(ext_block_size, Len(raw_frame_scores) - global_start)
           block_end == global_start + block_len
           i0 == SearchSorted(selection.frame_index, global_start)
           i1 == SearchSorted(selection.frame_index, block_end)
           infos == FrameInfos(HitRange(i0, i1), global_start)
       IN  /\ handed' = [h \in Handlers |-> handed[h] \o infos]
           /\ global_start' = block_end
           /\ epc' = IF i0 # i1 /\ i1 >= Len(selection.frame_index)
                       THEN "done" ELSE "loop"
    /\ UNCHANGED ext_block_size

\* line 248: the stream has ended
ExtEnd ==
    /\ ExtOnly
    /\ epc = "loop"
    /\ global_start >= Len(raw_frame_scores)
    /\ epc' = "done"
    /\ UNCHANGED <<ext_block_size, global_start, handed>>

ExtNext ==
    \/ ExtPrepare
    \/ ExtBlock
    \/ ExtEnd

----------------------------------------------------------------------------
(* AutoTaskIdMixin (models.py): the task_id of an ExtractionTask *)

\* the threads that create ExtractionTask objects
Creators == {"c1", "c2", "c3"}

\* no thread holds the lock
Unlocked == "unlocked"

\* __init_subclass__, lines 21-24: the class starts with _next_id = 1 and a
\* free lock; no task has been created
IdInit ==
    /\ next_id = 1
    /\ id_lock = Unlocked
    /\ cpc = [t \in Creators |-> [at |-> "idle", task_id |-> 0]]
    /\ cbegan = [t \in Creators |-> 0]
    /\ created_tasks = <<>>

\* ExtractionTask(...) is called on thread t: the dataclass __init__ runs
\* __post_init__, line 26
PostInitCall(t) ==
    /\ IdOnly
    /\ cpc[t].at = "idle"
    /\ Len(created_tasks)
          + Cardinality({u \in Creators : cpc[u].at # "idle"}) < MaxCreated
    /\ cpc' = [cpc EXCEPT ![t].at = "lock"]
    /\ cbegan' = [cbegan EXCEPT ![t] = Len(created_tasks)]
    /\ UNCHANGED <<next_id, id_lock, created_tasks>>

\* A mutant: the with statement does not wait for the lock.
PostInitLock_NoExclusion(t) ==
    /\ IdOnly
    /\ cpc[t].at = "lock"
    /\ id_lock' = t
    /\ cpc' = [cpc EXCEPT ![t].at = "assign"]
    /\ UNCHANGED <<next_id, cbegan, created_tasks>>

\* line 28: with cls._id_lock
PostInitLock(t) ==
    /\ IdOnly
    /\ cpc[t].at = "lock"
    /\ id_lock = Unlocked
    /\ id_lock' = t
    /\ cpc' = [cpc EXCEPT ![t].at = "assign"]
    /\ UNCHANGED <<next_id, cbegan, created_tasks>>

\* line 29: self._task_id = cls._next_id
PostInitAssign(t) ==
    /\ IdOnly
    /\ cpc[t].at = "assign"
    /\ cpc' = [cpc EXCEPT ![t] = [at |-> "increment", task_id |-> next_id]]
    /\ UNCHANGED <<next_id, id_lock, cbegan, created_tasks>>

\* line 30: cls._next_id += 1, and the with block ends
PostInitIncrement(t) ==
    /\ IdOnly
    /\ cpc[t].at = "increment"
    /\ next_id' = next_id + 1
    /\ id_lock' = Unlocked
    /\ cpc' = [cpc EXCEPT ![t].at = "exit"]
    /\ UNCHANGED <<cbegan, created_tasks>>

\* lines 32-34: __post_init__ returns and the task exists
PostInitExit(t) ==
    /\ IdOnly
    /\ cpc[t].at = "exit"
    /\ created_tasks' = Append(created_tasks,
          [task_id |-> cpc[t].task_id, thread |-> t, began |-> cbegan[t]])
    /\ cpc' = [cpc EXCEPT ![t] = [at |-> "idle", task_id |-> 0]]
    /\ UNCHANGED <<next_id, id_lock, cbegan>>

IdNext ==
    \/ \E t \in Creators : PostInitCall(t)
    \/ \E t \in Creators : PostInitLock(t)
    \/ \E t \in Creators : PostInitAssign(t)
    \/ \E t \in Creators : PostInitIncrement(t)
    \/ \E t \in Creators : PostInitExit(t)

----------------------------------------------------------------------------
(* The stream block size: _calculate_block_size and lines 140-147 *)

\* memory_limit_mb a caller hands to SharpFrameExtractor, in MB
MemoryLimitsMb == {1024, 8220, 16384}

\* width and height of the videos probed: a thumbnail, full HD, 4K, 8K
VideoSizes == {<<64, 64>>, <<1920, 1080>>, <<3840, 2160>>, <<7680, 4320>>}

\* __init__ lines 49-51: the memory limit of one job, for a limit of total MB
\* shared by video_jobs jobs: max(MIN_MEMORY_LIMIT, ceil(total / video_jobs))
MemoryLimitPerJob(total, video_jobs) ==
    Max2(MIN_MEMORY_LIMIT, (total + video_jobs - 1) \div video_jobs)

\* int(a * 2^k / d) for a >= 0 and d > 0, by long division on the binary
\* digits: q and r are the quotient and remainder of the digits read so far.
\* Python computes the byte counts without overflow; the doubles of lines
\* 293-295 carry 53 bits and the quotient of two byte counts below 2^49 is
\* either an integer or at least 1/(5 * frame_size_bytes) away from one, so
\* int() of the double quotient is the floor of the exact quotient.
RECURSIVE ScaledQuotient(_, _, _, _)
ScaledQuotient(q, r, k, d) ==
    IF k = 0 THEN q
    ELSE ScaledQuotient(2 * q + ((2 * r) \div d), (2 * r) % d, k - 1, d)

\* _calculate_block_size, lines 284-296, with safe_factor = 0.8 = 4 / 5:
\* count = int(memory_limit_mb * 1024 * 1024 * 0.8 / frame_size_bytes), where
\* 1024 * 1024 = 2^20
CalculateBlockSize(width, height, channels, memory_limit_mb) ==
    LET frame_size_bytes == width * height * channels
        a == 4 * memory_limit_mb
        d == 5 * frame_size_bytes
        count == ScaledQuotient(a \div d, a % d, 20, d)
    IN  Max2(1, count)

\* line 154: buffer_size = video_width * video_height *
\* self._analysis_channels * stream_block_size, in units of 1024 bytes (the
\* frames of VideoSizes are multiples of 1024 pixels)
BufferSizeKiB ==
    ((video_size[1] * video_size[2]) \div 1024) * analysis_channels * block_size

\* line 157: PooledSharedNDArrayStore(item_size=buffer_size,
\* n_buffers=self._max_workers): the bytes of all its segments, in units of
\* 1024 bytes
StorePoolKiB == worker_count * BufferSizeKiB

\* A mutant: every worker gets the whole budget.
MaxBlockSizePerWorker_WholeBudget(possible, n_workers) == Max2(1, possible)

\* A mutant: the share of a worker is not kept at 1 or more.
MaxBlockSizePerWorker_NoFloor(possible, n_workers) == possible \div n_workers

\* line 146: max_block_size_per_worker = max(1, possible_block_size //
\* self._max_workers)
MaxBlockSizePerWorker(possible, n_workers) == Max2(1, possible \div n_workers)

\* the block size is not being computed
SizeIdle ==
    /\ video_size = <<1, 1>>
    /\ memory_limit_per_job_mb = MIN_MEMORY_LIMIT
    /\ worker_count = 1
    /\ bpc = "idle"
    /\ possible_block_size = 0
    /\ block_size = 0

\* line 140 is reached: the probe has reported a size (lines 121-122), the
\* extractor was built with a memory limit, a number of jobs and a number of
\* workers
SizeInit ==
    /\ video_size \in VideoSizes
    /\ \E total \in MemoryLimitsMb, video_jobs \in 1..MaxJobs :
          memory_limit_per_job_mb = MemoryLimitPerJob(total, video_jobs)
    /\ worker_count \in 1..MaxWorkerCount
    /\ bpc = "calculate"
    /\ possible_block_size = 0
    /\ block_size = 0

\* lines 141-143: possible_block_size = self._calculate_block_size(width,
\* height, self._extraction_channels, self.memory_limit_per_job_mb)
SizeCalculate ==
    /\ SizeOnly
    /\ bpc = "calculate"
    /\ possible_block_size' = CalculateBlockSize(video_size[1], video_size[2],
                                  extraction_channels, memory_limit_per_job_mb)
    /\ bpc' = "distribute"
    /\ UNCHANGED <<video_size, memory_limit_per_job_mb, worker_count, block_size>>

\* lines 146-147: stream_block_size = min(self._preferred_block_size,
\* max_block_size_per_worker)
SizeDistribute ==
    /\ SizeOnly
    /\ bpc = "distribute"
    /\ block_size' = Min2(preferred_block_size,
                          MaxBlockSizePerWorker(possible_block_size, worker_count))
    /\ bpc' = "done"
    /\ UNCHANGED <<video_size, memory_limit_per_job_mb, worker_count,
                   possible_block_size>>

SizeNext == SizeCalculate \/ SizeDistribute

----------------------------------------------------------------------------
(* Specifications: one per component; the other components stay as built *)

\* the parts every specification starts from
BaseInit == StoreInit /\ FutInit /\ PoolInit /\ IdInit /\ SizeIdle /\ BatIdle /\ RdIdle

Init == BaseInit /\ RedIdle /\ RbIdle /\ AnIdle /\ ProcIdle /\ ExtIdle

StoreSpec == Init /\ [][StoreNext]_vars

FutureSpec == Init /\ [][FutNext]_vars

PoolSpec == Init /\ [][PoolNext]_vars

\* the state in which the reduction is called
ReduceInit == BaseInit /\ RedInit /\ RbIdle /\ AnIdle /\ ProcIdle /\ ExtIdle

ReduceSpec == ReduceInit /\ [][RedNext]_vars

\* a RollingBuffer has been constructed
RingInit == BaseInit /\ RedIdle /\ RbNew /\ AnIdle /\ ProcIdle /\ ExtIdle

RingSpec == RingInit /\ [][RingNext]_vars

\* _analyze_frames has been called
AnalysisInit == BaseInit /\ RedIdle /\ RbIdle /\ AnInit /\ ProcIdle /\ ExtIdle

AnalysisSpec == AnalysisInit /\ [][AnNext]_vars

\* the same pass, with worker processes that can end abnormally
CrashSpec == AnalysisInit /\ [][AnCrashNext]_vars

\* process() is called with up to MaxTasks tasks made by the named
\* constructors or with no mode
ProcessInit ==
    /\ BaseInit /\ RedIdle /\ RbIdle /\ AnIdle /\ ExtIdle
    /\ \E n \in 0..MaxTasks : ProcCalled(n, NamedOptions)

ProcessSpec == ProcessInit /\ [][ProcNext]_vars

\* process() is called with one task whose options are any of the dataclass
ConfigInit ==
    /\ BaseInit /\ RedIdle /\ RbIdle /\ AnIdle /\ ExtIdle
    /\ ProcCalled(1, AllOptions)

ConfigSpec == ConfigInit /\ [][ProcNext]_vars

\* process() is called with one task; the analysis pass of the task hands
\* its scores to the reduction
IntervalSpec ==
    ConfigInit /\ [][ProcNext \/ (\E i \in 1..MaxTasks, m \in ScorePatterns : TaskReduce(i, m))
                       \/ RedSetup \/ RedLoop \/ RedReturn]_vars

\* process() is called with one task in count mode
CountInit ==
    /\ BaseInit /\ RedIdle /\ RbIdle /\ AnIdle /\ ExtIdle
    /\ ProcCalled(1, CountModeOptions)

CountSpec == CountInit /\ [][CountNext]_vars

\* the reduction of a task is called, the extraction pass follows it
ExtractInit == BaseInit /\ RbIdle /\ AnIdle /\ ProcIdle /\ ExtInit

ExtractSpec == ExtractInit /\ [][RedNext \/ ExtNext]_vars

\* ExtractionTask objects are created by several threads
TaskIdSpec == Init /\ [][IdNext]_vars

\* _process_extraction_task has probed a video and reached line 140
BlockSizeInit ==
    /\ StoreInit /\ FutInit /\ PoolInit /\ IdInit
    /\ RedIdle /\ RbIdle /\ AnIdle /\ ProcIdle /\ ExtIdle
    /\ BatIdle /\ RdIdle
    /\ SizeInit

BlockSizeSpec == BlockSizeInit /\ [][SizeNext]_vars

\* read_frames of a BatchedVideoReader is called and run to its end
BatchInit ==
    /\ StoreInit /\ FutInit /\ PoolInit /\ IdInit /\ SizeIdle
    /\ RedIdle /\ RbIdle /\ AnIdle /\ ProcIdle /\ ExtIdle
    /\ BatInit /\ RdIdle

BatchSpec == BatchInit /\ [][BatNext]_vars

\* read_frames of a FfmpegIoVideoReader is called and run to its end
ReaderInit ==
    /\ StoreInit /\ FutInit /\ PoolInit /\ IdInit /\ SizeIdle
    /\ RedIdle /\ RbIdle /\ AnIdle /\ ProcIdle /\ ExtIdle
    /\ BatIdle /\ RdInit

ReaderSpec == ReaderInit /\ [][RdNext]_vars

\* The worker processes and the listener threads keep running: a worker
\* with a queued item takes it and handles it, a listener with a queued
\* result resolves it.
PoolFairness ==
    \A w \in WorkerIds :
        /\ WF_poolVars(WorkerGet(w))
        /\ WF_poolVars(WorkerHandle(w))
        /\ WF_poolVars(ListenerResolve(w))

PoolFairSpec == PoolSpec /\ PoolFairness

----------------------------------------------------------------------------
(* Claims about PooledSharedNDArrayStore, checked under StoreSpec *)

\* threads between the semaphore and the return of put
PutInFlight == {t \in StoreThreads : tpc[t] \in {"put_lock", "put_copy"}}
\* threads waiting for the semaphore
PutWaiting == {t \in StoreThreads : tpc[t] = "put_sem"}
\* number of puts that have returned a ref
PutsReturned == hPassed - Cardinality(PutInFlight)

\* C1: after any interleaving of put and release (and release_all) calls of
\* any threads, the number of segments in the active state (entered in
\* self._active by a put and not released since) never exceeds n_buffers.
C1_ActiveNeverExceedsNBuffers == Cardinality(active) <= n_buffers

\* n_buffers segments are active, a put is waiting and a release has
\* already recycled a segment
C1_Witness ==
    /\ Cardinality(active) = n_buffers
    /\ PutWaiting # {}
    /\ hReleased > 0

C2_Inv ==
    \* no put gets past the semaphore unless a release freed a segment
    /\ hPassed <= n_buffers + hReleased
    \* a put that waits while n_buffers segments are active cannot proceed
    /\ \A t \in PutWaiting :
          Cardinality(active) = n_buffers => ~ENABLED PutAcquire(t)
    \* without a release: once nothing moves and a put still waits, exactly
    \* n_buffers puts have returned (2 of 3 when n_buffers = 2)
    /\ ( /\ hReleased = 0
         /\ PutInFlight = {}
         /\ PutWaiting # {}
         /\ \A t \in PutWaiting : ~ENABLED PutAcquire(t) )
       => PutsReturned = n_buffers

\* a release that frees a segment leaves a permit for a waiting put
C2_Step == hReleased' > hReleased => semaphore' > 0

\* C2: a put called while n_buffers segments are active does not return
\* until a release of an active segment occurs; with no release exactly
\* n_buffers puts return and the others stay blocked, and one release lets a
\* blocked put proceed.
C2_PutBlocksUntilRelease == []C2_Inv /\ [][C2_Step]_vars

\* three threads have called put, exactly one release has happened, and
\* n_buffers + 1 puts have returned: the blocked one returned after it
C2_Witness ==
    /\ \A t \in StoreThreads : tpc[t] = "idle" /\ tlast[t] = "ref"
    /\ nputs = Cardinality(StoreThreads)
    /\ hReleased = 1
    /\ PutsReturned = n_buffers + 1

\* a step in which a put call is rejected: put was called and no thread has
\* gone on to the semaphore
PutRejected ==
    /\ nputs' = nputs + 1
    /\ tpc' = tpc
    /\ \E t \in StoreThreads : tlast'[t] = "ValueError"

\* C31: a put of data larger than item_size raises and leaves the store as
\* it was: the semaphore, the free list, the active segments and the
\* positions of all threads are unchanged by the rejected call (so every
\* later call meets the state it would have met without it), and the
\* permits of the semaphore are those not taken by a put that passed the
\* size check, less those returned by a release.
C31_RejectedPutChangesNothing ==
    /\ [][PutRejected =>
            UNCHANGED <<semaphore, pool, active, created, tpc, tshm,
                        issued, hPassed, hReleased>>]_vars
    /\ [](semaphore = n_buffers - hPassed + hReleased)

\* a put was rejected and puts of other threads have filled the store to
\* n_buffers active segments
C31_Witness ==
    /\ \E t \in StoreThreads : tlast[t] = "ValueError"
    /\ Cardinality(active) = n_buffers
    /\ semaphore = 0

----------------------------------------------------------------------------
(* Claims about Future, checked under FutureSpec *)

\* the callbacks a resolution (the round-th set_* call) has invoked, in order
InvokedInRound(round) ==
    LET sel == SelectSeq(invoked, LAMBDA e : e.round = round)
    IN  [i \in 1..Len(sel) |-> sel[i].cb]

\* how many times callback id has been invoked
TimesInvoked(id) == Len(SelectSeq(invoked, LAMBDA e : e.cb = id))

\* the thread that is inside the round-th set_* call, if any
InRound(round) == {t \in FutThreads : fround[t] = round /\ fpc[t] # "idle"}

\* the callbacks whose add_done_callback call has returned
Registered ==
    {id \in 1..nadds :
        \A t \in FutThreads :
            fpc[t] \in {"add_lock", "add_check", "add_call", "add_append",
                        "add_exit"} => farg[t].id # id}

\* C6 (the claim as stated): once the Future is done, no step of a later
\* set_result or set_exception call changes what result() reports, and
\* done() stays true.
C6_WriteOnce == [][done => (done' /\ result' = result)]_vars

\* C7: for any interleaving of add_done_callback calls with the resolution
\* of the Future (one set_result or set_exception call) on different
\* threads, no callback runs twice, and once the resolution has finished
\* every callback whose registration has returned has run exactly once.
C7_CallbacksExactlyOnce ==
    nsets <= 1 =>
        /\ \A id \in 1..nadds : TimesInvoked(id) <= 1
        /\ wait_returns => \A id \in Registered : TimesInvoked(id) = 1

\* two callbacks were registered, one before and one after the resolution,
\* the resolution has finished and both have run
C7_Witness ==
    /\ nsets = 1 /\ nadds = 2 /\ wait_returns
    /\ Registered = {1, 2}
    /\ \E i, j \in 1..Len(invoked) : invoked[i].round = 1 /\ invoked[j].round = 0
    /\ \A t \in FutThreads : fpc[t] = "idle"

\* C8: the callbacks registered before the Future is resolved are invoked
\* at resolution in the order of their registration: what a set_* call has
\* invoked so far is the callback list up to its loop position, and the
\* whole list once its loop is over.
C8_CallbacksInRegistrationOrder ==
    \A round \in 1..nsets :
        /\ \A t \in InRound(round) :
              fpc[t] = "invoke" =>
                 InvokedInRound(round) = SubSeq(fut.callbacks, 1, fidx[t] - 1)
        /\ (InRound(round) = {} \/ \A t \in InRound(round) :
                                      fpc[t] \in {"set_cbdone", "set_exit"})
              => InvokedInRound(round) = fut.callbacks

\* two callbacks were registered before the resolution, which has run both
C8_Witness ==
    /\ nsets = 1 /\ wait_returns
    /\ Len(fut.callbacks) = 2
    /\ InvokedInRound(1) = <<1, 2>>

\* C9: add_done_callback on a Future that is already resolved or failed
\* invokes the callback before it returns, on the calling thread.
C9_ImmediateCallback ==
    \A t \in FutThreads :
        (fpc[t] = "add_exit" /\ farg[t].atcall)
            => \E i \in 1..Len(invoked) :
                  invoked[i].cb = farg[t].id /\ invoked[i].by = t

\* a callback added to a failed Future has run on the adding thread, which
\* is about to return
C9_Witness ==
    \E t \in FutThreads :
        /\ fpc[t] = "add_exit" /\ farg[t].atcall
        /\ fut.exception # None
        /\ invoked # <<>> /\ invoked[Len(invoked)].by = t

\* the callbacks a set_* call has invoked, in any of its rounds
InvokedAtResolution == {invoked[j].cb : j \in {i \in 1..Len(invoked) : invoked[i].round >= 1}}

\* C33: whenever wait() would return True, the Future is resolved (a value
\* or an exception has been stored and done() is true) and every callback
\* that was in the list when the Future was resolved has been run by the
\* resolving call.
C33_WaitAfterCallbacks ==
    wait_returns =>
        /\ done
        /\ fut.result # None \/ fut.exception # None
        /\ \A i \in 1..Len(fut.callbacks) :
              fut.callbacks[i] \in InvokedAtResolution

\* the resolving call has run two callbacks and set both events; it has
\* not left its with block yet, and a wait() returns
C33_Witness ==
    /\ wait_returns
    /\ nsets = 1
    /\ fpc["u1"] = "set_exit"
    /\ Len(fut.callbacks) = 2
    /\ InvokedAtResolution = {1, 2}

\* C38: a callback that raises when the Future is resolved stops nothing:
\* the resolving call runs the whole callback list, the raising callback's
\* successors included, before it sets _callbacks_done; it leaves through
\* the end of its with block with _callbacks_done set, not through an
\* exception; and once it has returned wait() returns.
C38_CallbackExceptionIsContained ==
    /\ \A t \in FutThreads :
          /\ fpc[t] \in {"set_cbdone", "set_exit"} =>
                InvokedInRound(fround[t]) = fut.callbacks
          /\ fpc[t] = "set_exit" => fut.callbacks_done
    /\ (nsets >= 1 /\ \A r \in 1..nsets : InRound(r) = {}) => wait_returns

\* the callback registered first raises, a second one was registered after
\* it and before the resolution; the resolving call has run both and has
\* returned, and wait() returns
C38_Witness ==
    /\ fut.callbacks = <<1, 2>>
    /\ 1 \in RaisingCallbacks
    /\ nsets = 1 /\ InRound(1) = {}
    /\ InvokedInRound(1) = <<1, 2>>
    /\ wait_returns

----------------------------------------------------------------------------
(* Claims about the worker pool, checked under PoolSpec and PoolFairSpec *)

FutureIds == 1..Len(futs)

\* the tasks submitted to worker w whose Future is not resolved
InFlight(w) == {k \in FutureIds : futs[k].worker = w /\ ~futs[k].done}

\* the job threads that have acquired worker w and not yet submitted to it
Holding(w) == {j \in Jobs : jpc[j] = "register" /\ jworker[j] = w}

IdleWorkers == {active_worker_ids[i] : i \in 1..Len(active_worker_ids)}

\* C3: through submit_task, at every moment each worker has at most one
\* task submitted to it whose Future is not resolved (a thread that has
\* acquired the worker and is about to submit counts as one), whatever the
\* number of threads submitting.
C3_OneTaskInFlightPerWorker ==
    \A w \in WorkerIds : Cardinality(InFlight(w)) + Cardinality(Holding(w)) <= 1

\* every worker has a task in flight and a further submit_task waits in
\* acquire on the empty idle queue
C3_Witness ==
    /\ \A w \in WorkerIds : Cardinality(InFlight(w)) = 1
    /\ active_worker_ids = <<>>
    /\ \E j \in Jobs : jpc[j] = "acquire"

\* C4: a worker acquired by submit_task is in the idle queue again only
\* after the Future of the task submitted to it is resolved: no idle worker
\* is held by a submitting thread or has an unresolved task.
C4_ReleasedOnlyAfterResolution ==
    \A w \in IdleWorkers : InFlight(w) = {} /\ Holding(w) = {}

\* a worker whose task failed is idle again, released by the callback that
\* was registered before the Future was resolved
C4_Witness ==
    \E k \in FutureIds :
        /\ futs[k].done /\ futs[k].exception # NoValue
        /\ futs[k].callbacks # <<>>
        /\ futs[k].worker \in IdleWorkers

\* a resolved Future holds the outcome of its own task: the exception when
\* scoring raised, the scores otherwise; and a worker process ends only
\* after stop()
C5_Inv ==
    /\ \A k \in FutureIds :
          futs[k].done =>
             IF futs[k].kind = "bad"
               THEN futs[k].exception = ErrorOf(k) /\ futs[k].result = NoValue
               ELSE futs[k].result = ScoresOf(k) /\ futs[k].exception = NoValue
    /\ \A w \in WorkerIds : wpc[w] = "stopped" => ppc = "stopped"

\* task k waits in the queue of its worker, whose process is running, with
\* no stop sentinel before it
Queued(k) ==
    /\ k \in FutureIds
    /\ wpc[futs[k].worker] # "stopped"
    /\ LET q == wtasks[futs[k].worker]
       IN  \E i \in 1..Len(q) :
              /\ q[i].block = k
              /\ \A h \in 1..(i - 1) : q[h] # StopSentinel

\* C5: when scoring a task raises inside a worker, the task's Future
\* becomes Failed with that exception, the worker keeps running, and every
\* task queued to a running worker ahead of the stop sentinel (also after a
\* failed task) is processed and resolves its own Future.
C5_FailureIsForwarded ==
    /\ []C5_Inv
    /\ \A k \in 1..MaxSubmits : Queued(k) ~> (k \in FutureIds /\ futs[k].done)

\* a task failed on a worker, and a task submitted to the same worker after
\* it has been processed and resolved with its scores
C5_Witness ==
    \E k1, k2 \in FutureIds :
        /\ k1 < k2 /\ futs[k1].worker = futs[k2].worker
        /\ futs[k1].done /\ futs[k1].exception = ErrorOf(k1)
        /\ futs[k2].done /\ futs[k2].result = ScoresOf(k2)
        /\ wpc[futs[k1].worker] = "get"

\* the tasks that are on their way through worker w: in its task queue or in
\* the hands of its process
TasksAt(w) ==
    ({wtasks[w][i] : i \in 1..Len(wtasks[w])} \cup {witem[w]})
        \ {StopSentinel, NoItem}

\* C24: BaseWorkerPool.stop() puts the stop sentinel on the task queue of
\* every worker and returns only after every worker process has terminated:
\* once stop() has returned, no worker process is running.
C24_StopJoinsWorkers ==
    ppc = "stopped" => \A w \in WorkerIds : wpc[w] = "stopped"

\* C30: every (task_id, result or error) pair on a worker's result queue
\* belongs to a task whose Future is registered under that task_id in the
\* worker's _futures, every task a worker can pick up has its Future
\* registered already, and a resolved Future holds the outcome of the task
\* that submit_task enqueued for it, never that of another task.
C30_ResultResolvesItsOwnFuture ==
    \A w \in WorkerIds :
        /\ \A i \in 1..Len(wresults[w]) :
              LET tid == wresults[w][i][1]
                  k == wresults[w][i][2][2]
              IN  /\ <<tid, k>> \in wfutures[w]
                  /\ k \in FutureIds
                  /\ futs[k].worker = w /\ futs[k].task_id = tid
                  /\ ~futs[k].done
        /\ \A t \in TasksAt(w) :
              /\ <<t.task_id, t.block>> \in wfutures[w]
              /\ ~futs[t.block].done
        /\ \A k \in FutureIds :
              (futs[k].worker = w /\ futs[k].done) =>
                  /\ \A p \in wfutures[w] : p[2] # k
                  /\ IF futs[k].kind = "bad"
                       THEN futs[k].exception = ErrorOf(k)
                       ELSE futs[k].result = ScoresOf(k)

\* a worker has served two tasks: the result of the second waits on the
\* result queue under task id 1 while the Future of the first is resolved
C30_Witness ==
    \E w \in WorkerIds, k1, k2 \in FutureIds :
        /\ k1 # k2
        /\ futs[k1].worker = w /\ futs[k1].done /\ futs[k1].task_id = 0
        /\ futs[k2].worker = w /\ ~futs[k2].done /\ futs[k2].task_id = 1
        /\ Len(wresults[w]) = 1
        /\ wresults[w][1][1] = 1


----------------------------------------------------------------------------
(* Claims about the reduction, checked under ReduceSpec *)

\* ceil(n / d) for n >= 0, d >= 1
CeilDiv(n, d) == (n + d - 1) \div d

\* the number of frames of interval q among n frames
ChunkSize(q, n, d) == Cardinality({i \in 0..(n - 1) : i \div d = q})

\* C10: for every frame_interval >= 1 and every score sequence of length
\* n >= 0 the reduction returns exactly ceil(n / frame_interval) selected
\* frames, one per chunk of frame_interval consecutive frames (the last
\* chunk may be shorter); an empty sequence gives none.
C10_SelectedCountIsCeil ==
    rpc = "done" =>
        LET n == Len(raw_frame_scores)
            count == CeilDiv(n, frame_interval)
        IN  /\ Len(selection.frame_index) = count
            /\ Len(selection.interval_index) = count
            /\ Len(selection.score) = count
            /\ \A p \in 1..Len(selection.interval_index) :
                  ChunkSize(selection.interval_index[p], n, frame_interval) >= 1

\* 7 frames with frame_interval 3 have given 3 frames, from chunks of 3, 3
\* and 1 frames
C10_Witness ==
    /\ rpc = "done"
    /\ Len(raw_frame_scores) = 7 /\ frame_interval = 3
    /\ Len(selection.frame_index) = 3
    /\ selection.interval_index = <<0, 1, 2>>
    /\ ChunkSize(0, 7, 3) = 3 /\ ChunkSize(1, 7, 3) = 3 /\ ChunkSize(2, 7, 3) = 1

\* the frames of interval q among the scored frames
FramesOfInterval(q) == {i \in DOMAIN scores : i \div frame_interval = q}

\* C11: in every interval the selected frame is a frame of that interval whose
\* score (as the float32 the reduction compares and returns) is greater than
\* or equal to the score of every other frame of the interval, and among the
\* frames that share the greatest score it is the one with the lowest global
\* frame index.
C11_BestAndEarliestPerInterval ==
    rpc = "done" =>
        \A p \in 1..Len(selection.frame_index) :
            LET q == selection.interval_index[p]
                f == selection.frame_index[p]
            IN  /\ f \in FramesOfInterval(q)
                /\ selection.score[p] = scores[f]
                /\ \A i \in FramesOfInterval(q) :
                      /\ scores[f] >= scores[i]
                      /\ scores[i] = scores[f] => f <= i

\* an interval whose greatest score is shared by two frames has been reduced:
\* the scores 16777216 and 16777217 are the same float32, the earlier frame
\* was selected
C11_Witness ==
    /\ rpc = "done"
    /\ frame_interval = 3
    /\ Len(raw_frame_scores) >= 3
    /\ raw_frame_scores[1] = 0
    /\ raw_frame_scores[2] = 16777216
    /\ raw_frame_scores[3] = 16777217
    /\ selection.frame_index[1] = 1
    /\ selection.score[1] = 16777216

----------------------------------------------------------------------------
(* Claims about RollingBuffer, checked under RingSpec *)

\* the samples the buffer retains, by number
Retained == IdsIn(RbSlice(0, RbLen))

\* C14: after any sequence of append (and clear) calls, get_last_samples(n)
\* with n <= len(buffer) returns exactly the last n appended samples, oldest
\* first, also when they wrap around the end of the ring, for scalar samples
\* and for frames.
C14_LastSamplesInOrder ==
    (rb_last.op = "get" /\ rb_last.n <= RbLen) =>
        rb_out = [p \in 1..rb_last.n |-> Sample(nappended - rb_last.n + p)]

\* a full ring of frames whose oldest sample is not in slot 0 has been read
\* whole: the samples returned wrap around the end of the ring
C14_Witness ==
    /\ rb_last.op = "get"
    /\ rb_last.n = capacity
    /\ capacity >= 2
    /\ rb_shape = "frame"
    /\ is_buffer_full
    /\ write_position > 0
    /\ Len(rb_out) = capacity

\* C15 as stated: an append of a chunk shorter than the capacity overwrites no
\* retained sample that get()/clear() has not drained.
C15_AppendNeverOverwrites ==
    [][(rb_last'.op = "append" /\ rb_last'.n < capacity) =>
          \A k \in Retained \ drained : k \in Retained']_vars

\* C15 as amended: an append of a chunk no longer than the free slots
\* (capacity - len) overwrites no retained sample and retains every sample of
\* the chunk.
C15_AppendWithinFreeKeepsAll ==
    [][(rb_last'.op = "append" /\ rb_last'.n <= RbFree) =>
          /\ Retained \subseteq Retained'
          /\ ChunkIds(rb_last'.n) \subseteq Retained']_vars

\* a buffer has been filled to its capacity by appends that each fitted the
\* free slots: every sample appended is retained
C15_Witness ==
    /\ rb_last.op = "append"
    /\ rb_last.n >= 1
    /\ rb_last.n < capacity
    /\ is_buffer_full
    /\ epoch = 0
    /\ nappended = capacity
    /\ Retained = 1..capacity

\* C16 as stated: every appended sample gets an absolute index greater than
\* that of every sample appended before it, across append, get and clear.
C16_AbsoluteIndexMonotonic ==
    \A i, j \in DOMAIN abs_log : i < j => abs_log[i].abs < abs_log[j].abs

\* C16 as amended: between two clear() calls every appended sample gets an
\* absolute index greater than that of every sample appended before it;
\* clear() sets total_samples_written back to 0.
C16_AbsoluteIndexMonotonicUntilClear ==
    \A i, j \in DOMAIN abs_log :
        (i < j /\ abs_log[i].epoch = abs_log[j].epoch) =>
            abs_log[i].abs < abs_log[j].abs

\* after a clear(), samples appended by two calls, the first of them
\* overwritten since, carry increasing absolute indices
C16_Witness ==
    /\ epoch >= 1
    /\ rb_last.op = "append"
    /\ \E i, j \in DOMAIN abs_log :
          /\ i < j
          /\ abs_log[i].epoch = epoch /\ abs_log[j].epoch = epoch
          /\ i \notin Retained
          /\ abs_log[i].abs < abs_log[j].abs
    /\ absolute_start_index > 0

----------------------------------------------------------------------------
(* Claims about the analysis pass, checked under AnalysisSpec *)

\* C12: when a task reaches the reduction, the score sequence built from the
\* recorded block results, sorted by block_index and chained, holds exactly
\* one score per frame decoded in the analysis pass, at the position of the
\* frame's global index, whatever the order in which the scoring tasks ended.
C12_ScoresCoverDecodedFrames ==
    apc = "reduce" =>
        analysis_scores = [p \in 1..video_frames |-> FrameScore(p - 1)]

\* the place of an event in the order of a task's events
EventRank(e) ==
    CASE e.type = "Started" -> 1
      [] e.type = "Prepared" -> 2
      [] e.type = "BlockAnalyzed" -> 3
      [] e.type = "Analyzed" -> 4
      [] e.type = "BlockExtracted" -> 5
      [] e.type = "Finished" -> 6

\* the positions of the log that hold an event of the type
EventsOf(type) == {p \in DOMAIN events : events[p].type = type}

\* C21: the observers see the events of a task in the order Started,
\* Prepared, every BlockAnalyzed, Analyzed, every BlockExtracted, Finished:
\* no event is followed by one of an earlier kind, the four task events occur
\* once at most, and when Analyzed has been emitted no callback that emits
\* BlockAnalyzed is still to run.
C21_EventsInOrder ==
    /\ \A p, q \in DOMAIN events :
          p < q => EventRank(events[p]) <= EventRank(events[q])
    /\ \A type \in {"Started", "Prepared", "Analyzed", "Finished"} :
          Cardinality(EventsOf(type)) <= 1
    /\ \A p, q \in EventsOf("BlockAnalyzed") :
          p # q => events[p].block # events[q].block
    /\ EventsOf("Analyzed") # {} =>
          \A k \in DOMAIN submitted_tasks :
              LET f == submitted_tasks[k]
              IN  f.state = "ok" => f.released /\ f.callbacks_done
    /\ apc = "finished" => EventsOf("Finished") # {}

\* a task has finished whose block 1 was analyzed before its block 0 and
\* which extracted two frames
C21_Witness ==
    /\ apc = "finished"
    /\ Len(events) >= 8
    /\ events[3] = Event("BlockAnalyzed", 1)
    /\ events[4] = Event("BlockAnalyzed", 0)
    /\ events[5].type = "Analyzed"
    /\ events[6].type = "BlockExtracted"
    /\ events[Len(events)].type = "Finished"

\* the submitted scoring tasks whose buffer has not been released
Unreleased == {k \in DOMAIN submitted_tasks : ~submitted_tasks[k].released}

\* C23: between the put that returned a ref and the release of that ref no
\* other put hands out its segment: no two scoring tasks whose buffers are
\* not released reference the same segment, and neither does the ref that
\* put has just returned for the next task.
C23_NoSegmentAliased ==
    /\ \A k1, k2 \in Unreleased :
          k1 # k2 => submitted_tasks[k1].ref # submitted_tasks[k2].ref
    /\ apc = "submit" =>
          \A k \in Unreleased : submitted_tasks[k].ref # shared_memory_ref

\* a segment that was released is handed out again while the segment of
\* another task is still in flight
C23_Witness ==
    /\ apc = "submit"
    /\ \E k \in DOMAIN submitted_tasks :
          /\ submitted_tasks[k].released
          /\ submitted_tasks[k].ref = shared_memory_ref
    /\ Unreleased # {}

\* C28: the buffer of every submitted block is released when its scoring
\* future completes, with scores or with a failure: once the pass has waited
\* on all futures, no segment of the task's store is active.
C28_BuffersReleasedAfterWait ==
    (\/ apc = "wait" /\ wait_index > Len(submitted_tasks)
     \/ apc = "reduce") =>
        /\ store_active = {}
        /\ \A k \in DOMAIN submitted_tasks : submitted_tasks[k].released

\* C29: blocking on the buffer pool or on the worker pool never becomes a
\* deadlock: while the pass is blocked in put or in acquire, a scoring task
\* is still running or a callback of a resolved one is still to run.
C29_NoDeadlockOnPools ==
    /\ (apc = "put" /\ Cardinality(store_active) = max_workers) =>
          \E k \in DOMAIN submitted_tasks :
              \/ submitted_tasks[k].state = "pending"
              \/ LockHeld(submitted_tasks[k])
    /\ (apc = "submit" /\ idle_workers = 0) =>
          \E k \in DOMAIN submitted_tasks :
              \/ submitted_tasks[k].state = "pending"
              \/ LockHeld(submitted_tasks[k])

\* the with block of line 157 has been left and the task's store torn down
StoreTornDown == apc \in {"raised", "extract", "finished"}

\* C32: the store of a task is torn down only when no scoring task that
\* references one of its segments is still in flight, on every path that
\* leaves the analysis pass: once the store is torn down no submitted
\* scoring task is pending (a task pending after the teardown was pending
\* when it happened, as nothing is submitted after it).
C32_TeardownAfterScoring ==
    StoreTornDown =>
        \A k \in DOMAIN submitted_tasks : submitted_tasks[k].state # "pending"

\* the submitted tasks whose worker process has ended before delivering
Crashed == {k \in DOMAIN submitted_tasks : ~submitted_tasks[k].worker_alive}

\* the wait loop of _analyze_frames (lines 198-201) has been left normally
PastWaitLoop == apc \in {"reduce", "extract", "finished"}

\* C34: once the worker process of a task in flight has ended abnormally,
\* in every state that follows the task's future is pending, no result of
\* its block has been recorded, the task has not got past the wait loop and
\* neither Analyzed nor Finished has been emitted for it.
C34_CrashedTaskStaysPending ==
    \A k \in Crashed :
        /\ submitted_tasks[k].state = "pending"
        /\ ~submitted_tasks[k].callbacks_done
        /\ \A i \in DOMAIN analysis_results :
              analysis_results[i].block_index # submitted_tasks[k].block_index
        /\ ~PastWaitLoop
        /\ \A i \in DOMAIN events : events[i].type \notin {"Analyzed", "Finished"}

\* the worker of the second block has ended; the first block's scores are
\* recorded, every block is decoded and the main thread is blocked in
\* wait() on the second future
C34_Witness ==
    /\ Crashed = {2}
    /\ apc = "wait" /\ wait_index = 2
    /\ Len(analysis_results) = 1
    /\ Len(submitted_tasks) = 2

----------------------------------------------------------------------------
(* Claims about process(), checked under ProcessSpec and ConfigSpec *)

\* C13: process(tasks) returns exactly one result per submitted task, ordered
\* by task_id ascending, for every submission order, every completion order
\* and every max_video_jobs.
C13_ResultsSortedByTaskId ==
    proc_pc = "returned" =>
        /\ Len(results) = Len(tasks)
        /\ {results[p] : p \in DOMAIN results} = {tasks[i].task_id : i \in DOMAIN tasks}
        /\ \A p, q \in DOMAIN results : p < q => results[p] < results[q]

\* C22: when a task fails in probing or decoding while other tasks are
\* processed concurrently (max_video_jobs > 1), every other task that does
\* not fail itself runs to Finished and process() returns with its result.
C22_OtherTasksUnaffected ==
    (/\ proc_pc \in {"returned", "raised"}
     /\ max_video_jobs > 1
     /\ \E i \in DOMAIN jobs : jobs[i].error = "DecodeError") =>
        \A h \in DOMAIN jobs :
            jobs[h].error = "none" =>
                /\ jobs[h].pc = "finished"
                /\ proc_pc = "returned"
                /\ \E p \in DOMAIN results : results[p] = tasks[h].task_id

\* the task has a frame_interval: line 131 or 133 has run
HasFrameInterval(j) ==
    \/ j.pc \in {"configured", "decoding", "finished"}
    \/ j.pc = "raised" /\ j.decoded

\* the integer nearest to x2 halves, the even one of two that are equally near
IsNearestInteger(r, x2) ==
    /\ 2 * r - x2 \in {-1, 0, 1}
    /\ 2 * r # x2 => r % 2 = 0

\* the least integer that is at least total / k, for total >= 0 and k > 0
IsCeiling(c, total, k) ==
    /\ c * k >= total
    /\ (c - 1) * k < total

\* the 100-frame video at 10 frames a second, asked for a frame every second
IsEverySecondScenario(i) ==
    /\ tasks[i].options = [every2 |-> Given(2), count |-> Unset]
    /\ jobs[i].video_fps = 10
    /\ jobs[i].total_video_frames = 100

\* C27: a task asked for a time interval T gets frame_interval
\* max(1, round(T * fps)), a task asked for a target count K gets
\* max(1, ceil(total_video_frames / K)); the 100-frame video at fps 10 with
\* T = 1.0 gets frame_interval 10 and 10 selected frames, the best (and of
\* equally good ones the earliest) of frames 0-9, 10-19, ..., 90-99.
C27_FrameIntervalOfRequest ==
    \A i \in DOMAIN jobs :
        LET o == tasks[i].options
            j == jobs[i]
        IN  HasFrameInterval(j) =>
              /\ (o.every2.set /\ ~o.count.set) =>
                    \E r \in {(o.every2.value * j.video_fps) \div 2,
                               (o.every2.value * j.video_fps) \div 2 + 1} :
                        /\ IsNearestInteger(r, o.every2.value * j.video_fps)
                        /\ j.frame_interval = IF r > 1 THEN r ELSE 1
              /\ (o.count.set /\ ~o.every2.set) =>
                    /\ o.count.value # 0
                    /\ IF o.count.value > 0
                         THEN \E c \in 0..j.total_video_frames :
                                /\ IsCeiling(c, j.total_video_frames, o.count.value)
                                /\ j.frame_interval = IF c > 1 THEN c ELSE 1
                         ELSE j.frame_interval = 1
              /\ IsEverySecondScenario(i) =>
                    /\ j.frame_interval = 10
                    /\ j.total_frames = 10
                    /\ rpc = "done" =>
                        /\ Len(selection.frame_index) = 10
                        /\ \A q \in 1..10 :
                            LET f == selection.frame_index[q]
                                chunk == (10 * (q - 1))..(10 * (q - 1) + 9)
                            IN  /\ f \in chunk
                                /\ \A g \in chunk :
                                     /\ scores[g] <= scores[f]
                                     /\ scores[g] = scores[f] => f <= g

\* the scenario's reduction has returned for scores that differ, and the best
\* of frames 0-9 is not the first of them
C27_Witness ==
    /\ rpc = "done"
    /\ \E i \in DOMAIN jobs :
        /\ IsEverySecondScenario(i)
        /\ jobs[i].frame_interval = 10
    /\ Len(selection.frame_index) = 10
    /\ selection.frame_index[1] = 2
    /\ selection.frame_index[2] = 16

\* options that set both sampling modes, or neither
BothOrNeither(options) == options.every2.set = options.count.set

\* options whose frame_interval_seconds or total_frame_count is zero or
\* negative
NonPositive(options) ==
    \/ options.every2.set /\ options.every2.value <= 0
    \/ options.count.set /\ options.count.value <= 0

\* C17: a task whose options set both frame_interval_seconds and
\* total_frame_count, or neither, fails with a configuration error before any
\* frame of its video is decoded.
C17_BothOrNeitherIsRejected ==
    \A i \in DOMAIN jobs :
        BothOrNeither(tasks[i].options) =>
            /\ ~jobs[i].decoded
            /\ jobs[i].pc \in {"queued", "started", "raised"}
            /\ jobs[i].pc = "raised" => jobs[i].error = "ValueError"

\* C18: a task whose frame_interval_seconds or total_frame_count is zero or
\* negative fails with a configuration error before any frame is decoded, and
\* the error reaches the caller of process(): process() does not return.
C18_NonPositiveIsRejected ==
    \A i \in DOMAIN jobs :
        NonPositive(tasks[i].options) =>
            /\ ~jobs[i].decoded
            /\ jobs[i].pc \in {"queued", "started", "raised"}
            /\ proc_pc # "returned"

----------------------------------------------------------------------------
(* Claims about task ids, checked under TaskIdSpec *)

\* C25: every ExtractionTask gets a task_id different from that of every
\* other ExtractionTask created, and a task whose creation began after the
\* creation of another had completed has the larger task_id, when several
\* threads create tasks concurrently.
C25_TaskIdsUniqueAndIncreasing ==
    \A p, q \in DOMAIN created_tasks :
        /\ p # q => created_tasks[p].task_id # created_tasks[q].task_id
        /\ created_tasks[q].began >= p =>
              created_tasks[q].task_id > created_tasks[p].task_id

\* three tasks have been created by three threads whose calls overlapped:
\* the thread that completed first did not get the smallest id
C25_Witness ==
    /\ Len(created_tasks) = 3
    /\ created_tasks[1].task_id = 2
    /\ created_tasks[2].began = 0
    /\ created_tasks[3].began = 0
    /\ {created_tasks[p].thread : p \in 1..3} = Creators

----------------------------------------------------------------------------
(* Claims about the block size, checked under BlockSizeSpec *)

\* floor(memory_limit_mb * 1024 * 1024 * 0.8 / (width * height * channels))
\* for frames of a multiple of 1024 bytes: 1024 cancels, 0.8 is 4 / 5
FramesInBudget(width, height, channels, memory_limit_mb) ==
    (4 * memory_limit_mb * 1024) \div (5 * ((width * height * channels) \div 1024))

\* C26: the block size both passes use is min(32, max(1,
\* floor(max_frames_in_budget / worker_count))) with max_frames_in_budget =
\* max(1, floor(M * 1024 * 1024 * 0.8 / (width * height * channels))), and it
\* lies between 1 and 32.
C26_BlockSizeFormula ==
    bpc = "done" =>
        LET budget == Max2(1, FramesInBudget(video_size[1], video_size[2], 3,
                                             memory_limit_per_job_mb))
            share == Max2(1, budget \div worker_count)
        IN  /\ (video_size[1] * video_size[2] * 3) % 1024 = 0
            /\ block_size = Min2(32, share)
            /\ block_size >= 1
            /\ block_size <= 32

\* an 8K video with 8220 MB per job: 69 frames fit the budget; 36 workers
\* get blocks of one frame
C26_Witness ==
    /\ bpc = "done"
    /\ video_size = <<7680, 4320>>
    /\ memory_limit_per_job_mb = 8220
    /\ possible_block_size = 69
    /\ worker_count = 36
    /\ block_size = 1

\* C40: when the frames that fit the budget (possible_block_size) are at
\* least as many as the workers, the segments of the task's store, max_workers
\* of width * height * block_size bytes each, take no more than 0.8 *
\* memory_limit_per_job_mb * 1024 * 1024 bytes together. Both sides are in
\* units of 1024 bytes, the budget times 5.
C40_StorePoolWithinBudget ==
    (bpc = "done" /\ possible_block_size >= worker_count) =>
        /\ (video_size[1] * video_size[2]) % 1024 = 0
        /\ StorePoolKiB = worker_count * ((video_size[1] * video_size[2]) \div 1024)
                              * block_size
        /\ 5 * StorePoolKiB <= 4 * memory_limit_per_job_mb * 1024

\* an 8K video with 8220 MB per job and 2 workers: 69 frames fit the budget,
\* the blocks hold 32 frames and the store 2 segments of 32 gray frames
C40_Witness ==
    /\ bpc = "done"
    /\ video_size = <<7680, 4320>>
    /\ memory_limit_per_job_mb = 8220
    /\ worker_count = 2
    /\ block_size = 32
    /\ StorePoolKiB = 2073600

----------------------------------------------------------------------------
(* Claims about the extraction pass, checked under ExtractSpec *)

\* the global frame indices the reduction selected
SelectedIds == {selection.frame_index[p] : p \in DOMAIN selection.frame_index}

\* C19: when the second decode yields the frames of the analysis pass, every
\* selected frame is handed to every registered output handler exactly once
\* and no unselected frame is handed to any handler, for every alignment of
\* block boundaries and interval boundaries.
C19_SelectedFramesHandedOnce ==
    \A h \in Handlers :
        /\ \A p \in DOMAIN handed[h] :
              /\ handed[h][p].frame \in SelectedIds
              /\ handed[h][p].frame = handed[h][p].frame_index
              /\ \A q \in DOMAIN handed[h] :
                    handed[h][q].frame = handed[h][p].frame => q = p
        /\ epc = "done" =>
              {handed[h][p].frame : p \in DOMAIN handed[h]} = SelectedIds

\* a video of 5 frames, intervals of 3 frames and blocks of 2: the two
\* selected frames have reached both handlers
C19_Witness ==
    /\ epc = "done"
    /\ Len(raw_frame_scores) = 5
    /\ frame_interval = 3
    /\ ext_block_size = 2
    /\ Cardinality(SelectedIds) = 2
    /\ \A h \in Handlers : Len(handed[h]) = 2

\* C20: every output handler receives the selected frames of a task in
\* strictly increasing global_frame_index order, which is increasing
\* interval_index order too.
C20_HandedInFrameOrder ==
    \A h \in Handlers :
        \A p, q \in DOMAIN handed[h] :
            p < q => /\ handed[h][p].frame_index < handed[h][q].frame_index
                     /\ handed[h][p].interval_index < handed[h][q].interval_index

\* two selected frames of one block have been handed on, then one of a later
\* block
C20_Witness ==
    /\ epc = "done"
    /\ frame_interval = 1
    /\ ext_block_size = 2
    /\ \E h \in Handlers :
          /\ Len(handed[h]) = 3
          /\ handed[h][1].frame_index = 0
          /\ handed[h][2].frame_index = 1
          /\ handed[h][3].frame_index = 2

----------------------------------------------------------------------------
(* The number of frames selected in count mode, checked under CountSpec *)

\* C39: for a task in count mode with total_frame_count K >= 1 and a video
\* of any number of frames, the number of frames to select, the ceiling of
\* the video's frame count over frame_interval, is at most K, and the
\* reduction over the scores of all frames selects exactly that many.
C39_CountModeSelectsAtMostK ==
    \A i \in DOMAIN jobs :
        LET o == tasks[i].options
            j == jobs[i]
        IN  (o.count.set /\ ~o.every2.set /\ o.count.value >= 1
                /\ HasFrameInterval(j)) =>
              /\ j.frame_interval >= 1
              /\ IsCeiling(j.total_frames, j.total_video_frames, j.frame_interval)
              /\ j.total_frames <= o.count.value
              /\ rpc = "done" =>
                    /\ Len(selection.frame_index) = j.total_frames
                    /\ Len(selection.frame_index) <= o.count.value

\* 3 frames are asked of a video of 4: the interval is 2 and the reduction
\* has selected 2 frames, fewer than asked
C39_Witness ==
    /\ Len(tasks) = 1
    /\ tasks[1].options.count = Given(3)
    /\ jobs[1].total_video_frames = 4
    /\ jobs[1].frame_interval = 2
    /\ rpc = "done"
    /\ Len(selection.frame_index) = 2

----------------------------------------------------------------------------
(* The accounting of worker ids, checked under PoolSpec *)

\* how many times worker id w is on the idle queue
TimesIdle(w) ==
    Cardinality({i \in 1..Len(active_worker_ids) : active_worker_ids[i] = w})

\* the submit_task calls that have acquired worker w and not yet returned
\* (frame_analyzer_pool.py lines 37-41)
AcquiredBy(w) ==
    {j \in Jobs : jpc[j] \in {"register", "put", "add_callback"} /\ jworker[j] = w}

\* the tasks of worker w handed out by a submit_task call that has
\* returned, and neither resolved nor failed so far
Outstanding(w) ==
    {k \in InFlight(w) : \A j \in Jobs : jfut[j] # k}

\* C37: after start(), every worker id is either once on the idle queue, or
\* held by one submit_task call that has not returned, or by one task that
\* has not resolved or failed yet: the idle ids and the held ids are
\* num_workers together, and none is there twice or missing.
C37_WorkerIdsConserved ==
    ppc # "new" =>
        /\ \A w \in WorkerIds :
              TimesIdle(w) + Cardinality(AcquiredBy(w))
                  + Cardinality(Outstanding(w)) = 1
        /\ \A i \in 1..Len(active_worker_ids) : active_worker_ids[i] \in WorkerIds

\* two tasks were submitted, one has failed and one has resolved, and every
\* worker id is back on the idle queue
C37_Witness ==
    /\ Len(futs) = 2
    /\ \A k \in FutureIds : futs[k].done
    /\ \E k \in FutureIds : futs[k].exception # NoValue
    /\ \E k \in FutureIds : futs[k].result # NoValue
    /\ \A j \in Jobs : jpc[j] = "idle"
    /\ Len(active_worker_ids) = num_workers

----------------------------------------------------------------------------
(* Claims about the video readers, checked under BatchSpec and ReaderSpec *)

\* the concatenation of the chunks a generator has yielded
RECURSIVE Flatten(_)
Flatten(chunks) ==
    IF chunks = <<>> THEN <<>> ELSE Head(chunks) \o Flatten(Tail(chunks))

\* every chunk but the last holds exactly size rows, the last 1..size
ChunksOfSize(chunks, size) ==
    \A i \in 1..Len(chunks) :
        /\ Len(chunks[i]) \in 1..size
        /\ i < Len(chunks) => Len(chunks[i]) = size

\* C35 (the claim as stated): when read_frames has ended, for any
\* batch_size >= 1 and any input length, it ended without an exception,
\* the batches it yielded concatenate to the wrapped reader's frames in
\* order, and every batch but the last holds exactly batch_size frames.
C35_BatchesAreTheFrames ==
    bat.pc \in {"done", "raised"} =>
        /\ bat.error = None
        /\ Flatten(bat.out) = [k \in 1..bat.total |-> k]
        /\ ChunksOfSize(bat.out, bat.batch_size)

\* the frames the decoder has delivered in all its blocks
DecodedTotal == rd.base + rd.n_frames + SumOf(rd.blocks)

\* C36: in every state of read_frames the chunks yielded so far concatenate
\* to the first frames of the decoder, in order and without a gap or a
\* repetition, and together with the frames in the buffer they are the
\* frames taken from the decoder so far; every chunk yielded inside the loop
\* holds exactly chunk_size frames; when the generator has ended the chunks
\* concatenate to all the frames and only the last one can be shorter. The
\* ring numbers the frames as the blocks do.
C36_ChunksAreTheFrames ==
    LET flat == Flatten(rd.out)
    IN  /\ flat = [k \in 1..Len(flat) |-> Sample(k)]
        /\ ChunksOfSize(rd.out, rd.chunk_size)
        /\ rd.pc \in {"while", "clear", "append"} =>
              /\ nappended = rd.base + rd.idx
              /\ \A i \in 1..Len(rd.out) : Len(rd.out[i]) = rd.chunk_size
        /\ rd.pc \in {"while", "for", "tail"} /\ rd.made =>
              flat \o RbSlice(0, RbLen) = [k \in 1..nappended |-> Sample(k)]
        /\ rd.pc = "done" => Len(flat) = rd.base /\ rd.blocks = <<>>

\* chunk_size 2 and decoder blocks of 3, 0 and 2 frames: read_frames has
\* ended after yielding chunks of 2, 2 and 1 frames
C36_Witness ==
    /\ rd.pc = "done"
    /\ rd.chunk_size = 2
    /\ rd.base = 5
    /\ Len(rd.out) = 3
    /\ rd.out[3] = <<Sample(5)>>
    /\ epoch = 2

=============================================================================
